---- MODULE Spec2Model ----
(***************************************************************************)
(* Bench-top instrument GUI (src/test6.py, src/test8_gui_scope.py):        *)
(* the UI thread (constructor, Tk callbacks, safe_exit) and the daemon     *)
(* poll thread share self.inst, self.run_flag, self.lock and the VISA      *)
(* sessions tracked in self._all_sessions.                                 *)
(*                                                                         *)
(* A session is identified by the role it was opened for (one open per     *)
(* role and run).  Every device write/query is two steps: the call is      *)
(* issued (it is then "in flight") and it returns or raises.               *)
(***************************************************************************)
EXTENDS Integers, Sequences, FiniteSets, TLC

\* How many times safe_exit may be invoked in one run.
MaxExitCalls == 2

VARIABLES variant, discovered, RESOURCE_NAMES, all_sessions, localInst, instSet, inst, run_flag, lock, isOpen, everOpened, closeCalls, rmCloseCalls, uiPc, uiCtx, uiIdx, uiCmd, ioUi, fgWav, fgOut, exitCalls, exitRet, exitOps, disableSent, disableRaised, closeRaised, rejected, lastErr, initOk, destroyed, pollPc, pollIdx, ioPoll, cycleFailed, snapOn, cbPending, v_ps, v_dmm, lgProg, lgPc, running, lgHave, lgVal, lgResult, lgDmmOpen, lgRows, lgConnCloses, lgDmmCloses, wvPc, wvArgs, wvT, wvY, outOn, swProg, swPc, swIdx, v_set, swInst, cfPc, cfStack, fgen_thread, quitMainLoop

AllRoles == {"PS", "DMM", "FGEN", "OSC"}

\* RESOURCE_NAMES keys, in dict order, per program variant.
RoleSeq(v) == IF v = "test8" THEN <<"PS", "DMM", "FGEN", "OSC">> ELSE <<"PS", "DMM", "FGEN">>

Roles(v) == {RoleSeq(v)[i] : i \in 1..Len(RoleSeq(v))}

Cmd(r, k, c) == [role |-> r, kind |-> k, cmd |-> c]

NoIO == Cmd("none", "none", "none")

configure_fgen == <<Cmd("FGEN", "write", "*RST"), Cmd("FGEN", "write", "FUNC SQU"), Cmd("FGEN", "write", "FREQ 1000"), Cmd("FGEN", "write", "UNIT:VOLT HIGHL"), Cmd("FGEN", "write", "VOLT:HIGH 1.0"), Cmd("FGEN", "write", "VOLT:LOW 0.0"), Cmd("FGEN", "write", "FUNC:SQU:DCYC 50"), Cmd("FGEN", "write", "OUTP1 ON")>>

configure_ps == <<Cmd("PS", "write", "*RST"), Cmd("PS", "write", "I1 2"), Cmd("PS", "write", "OP1 0")>>

configure_osc == <<Cmd("OSC", "write", "*RST"), Cmd("OSC", "write", "SELect:CH1 ON"), Cmd("OSC", "write", "CH1:SCAle 1.0"), Cmd("OSC", "write", "DATa:ENCdg RIBinary"), Cmd("OSC", "write", "DATa:WIDth 1"), Cmd("OSC", "write", "ACQuire:STATE RUN")>>

\* The unlocked configuration writes of connect_instruments, in call order.
ConfigSeq(v) == IF v = "test8" THEN configure_fgen \o configure_ps \o configure_osc ELSE configure_fgen \o configure_ps

\* The writes of one fg_update call for the widget values (wav, out); test7 adds the phase write.
FgSeq(wav, out) == <<Cmd("FGEN", "write", "FUNC"), Cmd("FGEN", "write", "FREQ"), Cmd("FGEN", "write", "VOLT:HIGH"), Cmd("FGEN", "write", "VOLT:LOW")>> \o (IF wav \in {"SQU", "PULSE"} THEN <<Cmd("FGEN", "write", "FUNC:SQU:DCYC")>> ELSE <<>>) \o (IF variant = "test7" THEN <<Cmd("FGEN", "write", "PHAS")>> ELSE <<>>) \o <<Cmd("FGEN", "write", IF out THEN "OUTP1 1" ELSE "OUTP1 0")>>

\* The read sequence of one poll cycle.
PollSeq == <<Cmd("PS", "query", "V1?"), Cmd("DMM", "write", "CONF:VOLT:DC 10"), Cmd("DMM", "query", "READ?")>>

\* The disable writes of safe_exit, in order.
DisableSeq(v) == IF v = "test8" THEN <<Cmd("PS", "write", "OP1 0"), Cmd("FGEN", "write", "OUTP1 OFF"), Cmd("OSC", "write", "ACQuire:STATE STOP")>> ELSE <<Cmd("PS", "write", "OP1 0"), Cmd("FGEN", "write", "OUTP1 OFF")>>

\* Transport state of the sessions and what was sent to the devices.
devVars == <<isOpen, everOpened, closeCalls, rmCloseCalls>>

\* The object's fields and the module global.
objVars == <<RESOURCE_NAMES, all_sessions, instSet, inst, run_flag>>

\* The UI thread's position and locals.
uiVars == <<uiPc, uiCtx, uiIdx, uiCmd, ioUi, fgWav, fgOut, localInst, exitRet>>

\* Records of what happened, read by the properties only.
histVars == <<discovered, exitCalls, exitOps, disableSent, disableRaised, closeRaised, rejected, lastErr, initOk, destroyed>>

pollVars == <<pollPc, pollIdx, ioPoll, cycleFailed>>

\* The snapshot of poll_loop: its locals v_ps and v_dmm, named by the cycle that assigned them relative to the
\* oldest update_live_labels call still waiting in the Tk event queue (cbPending).  The values take part in no
\* decision of either thread; they are followed only where snapOn is set.
snapVars == <<snapOn, cbPending, v_ps, v_dmm>>

\* The stand-alone DMM loggers (disc4.py, discover2.py): which script runs, where it is, its globals.
lgVars == <<lgProg, lgPc, running, lgHave, lgVal, lgResult, lgDmmOpen, lgRows, lgConnCloses, lgDmmCloses>>

\* One call of one_period_wave: its arguments and the two arrays it returns.
wvVars == <<wvPc, wvArgs, wvT, wvY>>

\* The sweep scripts (test2.py, test3_Square.py): which script runs, where it is, its position in the
\* current sequence of calls, the loop variable and the roles in its local dict inst.
swVars == <<swProg, swPc, swIdx, v_set, swInst>>

\* Control_Function_Generator.py: the main thread, the worker thread running configure_fgen, the worker's
\* position in its writes and the selected waveform.
cfVars == <<cfPc, cfStack, fgen_thread, quitMainLoop>>

\* The scripts' state together with the roles whose device has its output switched on.
scriptVars == <<outOn, swVars, cfVars>>

\* State of the programs other than the bench window.
auxVars == <<lgVars, wvVars, scriptVars>>

\* State of the bench window (test6.py, test8_gui_scope.py).
benchVars == <<variant, lock, devVars, objVars, uiVars, histVars, pollVars, snapVars>>

vars == <<benchVars, auxVars>>

EmptyMap == [r \in {} |-> "none"]

\* State after BenchGUI.__init__ has set the fields and built the widgets.
BenchFields ==
  /\ discovered = {}
  /\ RESOURCE_NAMES = [r \in AllRoles |-> FALSE]
  /\ all_sessions = <<>>
  /\ localInst = EmptyMap
  /\ instSet = FALSE
  /\ inst = EmptyMap
  /\ run_flag = TRUE
  /\ lock = "free"
  /\ isOpen = [r \in AllRoles |-> FALSE]
  /\ everOpened = {}
  /\ closeCalls = [r \in AllRoles |-> 0]
  /\ rmCloseCalls = 0
  /\ uiPc = "connect"
  /\ uiCtx = "connect"
  /\ uiIdx = 1
  /\ uiCmd = NoIO
  /\ ioUi = NoIO
  /\ fgWav = "SQU"
  /\ fgOut = TRUE
  /\ exitCalls = 0
  /\ exitRet = "init"
  /\ exitOps = 0
  /\ disableSent = {}
  /\ disableRaised = FALSE
  /\ closeRaised = FALSE
  /\ rejected = "none"
  /\ lastErr = "none"
  /\ initOk = FALSE
  /\ destroyed = FALSE
  /\ pollPc = "not_started"
  /\ pollIdx = 1
  /\ ioPoll = NoIO
  /\ cycleFailed = FALSE
  /\ cbPending = FALSE
  /\ v_ps = "unset"
  /\ v_dmm = "unset"

\* The window of test6.py or test8_gui_scope.py right after its fields are set.
BenchInit == variant \in {"test6", "test8"} /\ snapOn = FALSE /\ BenchFields

\* A reading as float() returns it: not-a-number, or a value in thousandths of the unit.
Reading(x) == [nan |-> FALSE, v |-> x]

NaN == [nan |-> TRUE, v |-> 0]

\* No logger script is running.
LoggerOff ==
  /\ lgProg = "off"
  /\ lgPc = "off"
  /\ running = FALSE
  /\ lgHave = FALSE
  /\ lgVal = Reading(0)
  /\ lgResult = "none"
  /\ lgDmmOpen = FALSE
  /\ lgRows = 0
  /\ lgConnCloses = 0
  /\ lgDmmCloses = 0

\* No script is running.
ScriptsOff ==
  /\ outOn = {}
  /\ swProg = "off" /\ swPc = "off" /\ swIdx = 1 /\ v_set = 0 /\ swInst = <<>>
  /\ cfPc = "off" /\ cfStack = <<>> /\ fgen_thread = <<>> /\ quitMainLoop = FALSE

\* No call of one_period_wave is being made.
WaveOff ==
  /\ wvPc = "off"
  /\ wvArgs = <<>>
  /\ wvT = <<>>
  /\ wvY = <<>>

Init == BenchInit /\ LoggerOff /\ WaveOff /\ ScriptsOff

\* `if self.inst:` -- None and the empty dict are both falsy.
Truthy == instSet /\ DOMAIN inst # {}

\* Index of the first role of the variant without a discovered address, 0 if none.
FirstMissing(v, d) == IF \A i \in 1..Len(RoleSeq(v)) : RoleSeq(v)[i] \in d THEN 0 ELSE CHOOSE i \in 1..Len(RoleSeq(v)) : RoleSeq(v)[i] \notin d /\ \A j \in 1..(i - 1) : RoleSeq(v)[j] \in d

\* RESOURCE_NAMES after the assignment loop of connect_instruments, which stops at the first missing role.
NamesAfter(v, d) == [r \in AllRoles |-> \E i \in 1..Len(RoleSeq(v)) : RoleSeq(v)[i] = r /\ r \in d /\ (FirstMissing(v, d) = 0 \/ i < FirstMissing(v, d))]

\* connect_instruments without the per-role "not found" check.
ConnectDiscoverNoCheck ==
  /\ uiPc = "connect"
  /\ \E d \in SUBSET Roles(variant) :
       /\ discovered' = d
       /\ RESOURCE_NAMES' = [r \in AllRoles |-> r \in d]
       /\ uiPc' = "init_open"
  /\ uiIdx' = 1
  /\ UNCHANGED <<variant, snapVars, auxVars, lock, devVars, all_sessions, instSet, inst, run_flag, uiCtx, uiCmd, ioUi, fgWav, fgOut, localInst, exitRet, exitCalls, exitOps, disableSent, disableRaised, closeRaised, rejected, lastErr, initOk, destroyed, pollVars>>

\* connect_instruments: auto_discover, then the assignment loop that raises on the first role without an address.
ConnectDiscover ==
  /\ uiPc = "connect"
  /\ \E d \in SUBSET Roles(variant) :
       /\ discovered' = d
       /\ RESOURCE_NAMES' = NamesAfter(variant, d)
       /\ uiPc' = IF FirstMissing(variant, d) = 0 THEN "init_open" ELSE "exit_begin"
  /\ uiIdx' = 1
  /\ UNCHANGED <<variant, snapVars, auxVars, lock, devVars, all_sessions, instSet, inst, run_flag, uiCtx, uiCmd, ioUi, fgWav, fgOut, localInst, exitRet, exitCalls, exitOps, disableSent, disableRaised, closeRaised, rejected, lastErr, initOk, destroyed, pollVars>>

\* rm.open_resource(alias) accepted by the transport: the session is open; open_resource_logged sets its
\* timeout attribute and appends it.
Opened(r) ==
  /\ isOpen' = [isOpen EXCEPT ![r] = TRUE]
  /\ everOpened' = everOpened \cup {r}
  /\ all_sessions' = Append(all_sessions, r)

\* init_instruments storing each session into self.inst as soon as it is opened.
InitOpenPartial ==
  /\ uiPc = "init_open"
  /\ LET r == RoleSeq(variant)[uiIdx] IN
     IF ~RESOURCE_NAMES[r]
     THEN /\ uiPc' = "exit_begin"
          /\ UNCHANGED <<isOpen, everOpened, all_sessions, localInst, instSet, inst, uiIdx, rejected>>
     ELSE \E ok \in BOOLEAN :
            IF ok
            THEN /\ Opened(r)
                 /\ localInst' = (r :> r) @@ localInst
                 /\ inst' = (r :> r) @@ inst
                 /\ instSet' = TRUE
                 /\ uiIdx' = uiIdx + 1
                 /\ uiPc' = IF uiIdx = Len(RoleSeq(variant)) THEN "init_assign" ELSE "init_open"
                 /\ UNCHANGED rejected
            ELSE /\ rejected' = r
                 /\ uiPc' = "exit_begin"
                 /\ UNCHANGED <<isOpen, everOpened, all_sessions, localInst, instSet, inst, uiIdx>>
  /\ UNCHANGED <<variant, snapVars, auxVars, lock, closeCalls, rmCloseCalls, RESOURCE_NAMES, run_flag, uiCtx, uiCmd, ioUi, fgWav, fgOut, exitRet, discovered, exitCalls, exitOps, disableSent, disableRaised, closeRaised, lastErr, initOk, destroyed, pollVars>>

\* One iteration of init_instruments: raise on an unassigned alias, else open_resource_logged into the local dict.
InitOpen ==
  /\ uiPc = "init_open"
  /\ LET r == RoleSeq(variant)[uiIdx] IN
     IF ~RESOURCE_NAMES[r]
     THEN /\ uiPc' = "exit_begin"
          /\ UNCHANGED <<isOpen, everOpened, all_sessions, localInst, uiIdx, rejected>>
     ELSE \E ok \in BOOLEAN :
            IF ok
            THEN /\ Opened(r)
                 /\ localInst' = (r :> r) @@ localInst
                 /\ uiIdx' = uiIdx + 1
                 /\ uiPc' = IF uiIdx = Len(RoleSeq(variant)) THEN "init_assign" ELSE "init_open"
                 /\ UNCHANGED rejected
            ELSE /\ rejected' = r
                 /\ uiPc' = "exit_begin"
                 /\ UNCHANGED <<isOpen, everOpened, all_sessions, localInst, uiIdx>>
  /\ UNCHANGED <<variant, snapVars, auxVars, lock, closeCalls, rmCloseCalls, RESOURCE_NAMES, instSet, inst, run_flag, uiCtx, uiCmd, ioUi, fgWav, fgOut, exitRet, discovered, exitCalls, exitOps, disableSent, disableRaised, closeRaised, lastErr, initOk, destroyed, pollVars>>

\* self.inst = self.init_instruments(): the complete local dict is assigned.
InitAssign ==
  /\ uiPc = "init_assign"
  /\ instSet' = TRUE
  /\ inst' = localInst
  /\ uiPc' = "config"
  /\ uiIdx' = 1
  /\ UNCHANGED <<variant, snapVars, auxVars, lock, devVars, RESOURCE_NAMES, all_sessions, run_flag, uiCtx, uiCmd, ioUi, fgWav, fgOut, localInst, exitRet, histVars, pollVars>>

\* What evaluating self.inst[r].write/query raises before any I/O: "none" when the call goes out.
IssueErr(r) == IF ~instSet THEN "TypeError" ELSE IF r \notin DOMAIN inst THEN "KeyError" ELSE IF ~isOpen[inst[r]] THEN "InvalidSession" ELSE "none"

\* configure_fgen / configure_ps / configure_osc: the next write is issued on the session, no lock taken.
ConfigWrite ==
  /\ uiPc = "config"
  /\ LET c == ConfigSeq(variant)[uiIdx] IN
     IF IssueErr(c.role) = "none"
     THEN /\ ioUi' = c
          /\ uiPc' = "config_io"
     ELSE /\ uiPc' = "exit_begin"
          /\ UNCHANGED ioUi
  /\ UNCHANGED <<variant, snapVars, auxVars, lock, devVars, objVars, uiCtx, uiIdx, uiCmd, fgWav, fgOut, localInst, exitRet, histVars, pollVars>>

\* A connect_instruments that enables the supply right after configure_fgen, before configure_ps.
ConfigDoneEarlyEnable ==
  /\ uiPc = "config_io"
  /\ ioUi' = NoIO
  /\ \E ok \in BOOLEAN :
       IF ok
       THEN /\ IF uiIdx < Len(configure_fgen)
               THEN /\ uiIdx' = uiIdx + 1
                    /\ uiPc' = "config"
                    /\ UNCHANGED <<uiCmd, uiCtx>>
               ELSE /\ uiCmd' = Cmd("PS", "write", "OP1 1")
                    /\ uiCtx' = "connect"
                    /\ uiPc' = "w_acquire"
                    /\ UNCHANGED uiIdx
       ELSE /\ uiPc' = "exit_begin"
            /\ UNCHANGED <<uiIdx, uiCmd, uiCtx>>
  /\ UNCHANGED <<variant, snapVars, auxVars, lock, isOpen, everOpened, closeCalls, rmCloseCalls, objVars, fgWav, fgOut, localInst, exitRet, histVars, pollVars>>

\* The configuration write returns, or raises into connect_instruments' handler; after the last one comes ps_write("OP1 1").
ConfigDone ==
  /\ uiPc = "config_io"
  /\ ioUi' = NoIO
  /\ \E ok \in BOOLEAN :
       IF ok
       THEN /\ IF uiIdx < Len(ConfigSeq(variant))
               THEN /\ uiIdx' = uiIdx + 1
                    /\ uiPc' = "config"
                    /\ UNCHANGED <<uiCmd, uiCtx>>
               ELSE /\ uiCmd' = Cmd("PS", "write", "OP1 1")
                    /\ uiCtx' = "connect"
                    /\ uiPc' = "w_acquire"
                    /\ UNCHANGED uiIdx
       ELSE /\ uiPc' = "exit_begin"
            /\ UNCHANGED <<uiIdx, uiCmd, uiCtx>>
  /\ UNCHANGED <<variant, snapVars, auxVars, lock, isOpen, everOpened, closeCalls, rmCloseCalls, objVars, fgWav, fgOut, localInst, exitRet, histVars, pollVars>>

\* Lock acquisition that does not wait for the lock to be free.
WrapperAcquireNoWait ==
  /\ uiPc = "w_acquire"
  /\ lock' = "ui"
  /\ uiPc' = "w_body"
  /\ UNCHANGED <<variant, snapVars, auxVars, devVars, objVars, uiCtx, uiIdx, uiCmd, ioUi, fgWav, fgOut, localInst, exitRet, histVars, pollVars>>

\* ps_write / fg_write / osc_write: `with self.lock:` blocks until the lock is free.
WrapperAcquire ==
  /\ uiPc = "w_acquire"
  /\ lock = "free"
  /\ lock' = "ui"
  /\ uiPc' = "w_body"
  /\ UNCHANGED <<variant, snapVars, auxVars, devVars, objVars, uiCtx, uiIdx, uiCmd, ioUi, fgWav, fgOut, localInst, exitRet, histVars, pollVars>>

\* A wrapper without the with-block: a call that raises at once leaves the lock held.
WrapperIssueKeepLock ==
  /\ uiPc = "w_body"
  /\ IF IssueErr(uiCmd.role) = "none"
     THEN /\ ioUi' = uiCmd
          /\ uiPc' = "w_io"
          /\ UNCHANGED <<lock, lastErr>>
     ELSE /\ lastErr' = IssueErr(uiCmd.role)
          /\ uiPc' = "w_ret"
          /\ UNCHANGED <<lock, ioUi>>
  /\ UNCHANGED <<variant, snapVars, auxVars, devVars, objVars, uiCtx, uiIdx, uiCmd, fgWav, fgOut, localInst, exitRet, discovered, exitCalls, exitOps, disableSent, disableRaised, closeRaised, rejected, initOk, destroyed, pollVars>>

\* The wrapper's body: self.inst[role].write(cmd) is issued, or raises at once and the with-block releases the lock.
WrapperIssue ==
  /\ uiPc = "w_body"
  /\ IF IssueErr(uiCmd.role) = "none"
     THEN /\ ioUi' = uiCmd
          /\ uiPc' = "w_io"
          /\ UNCHANGED <<lock, lastErr>>
     ELSE /\ lock' = "free"
          /\ lastErr' = IssueErr(uiCmd.role)
          /\ uiPc' = "w_ret"
          /\ UNCHANGED ioUi
  /\ UNCHANGED <<variant, snapVars, auxVars, devVars, objVars, uiCtx, uiIdx, uiCmd, fgWav, fgOut, localInst, exitRet, discovered, exitCalls, exitOps, disableSent, disableRaised, closeRaised, rejected, initOk, destroyed, pollVars>>

\* An fg_update that is one critical section: the lock is kept from one successful sub-command to the next.
WrapperDoneHoldFg ==
  /\ uiPc = "w_io"
  /\ ioUi' = NoIO
  /\ \E ok \in BOOLEAN :
       /\ lastErr' = IF ok THEN "ok" ELSE "Timeout"
       /\ lock' = IF ok /\ uiCtx = "fg" /\ uiIdx < Len(FgSeq(fgWav, fgOut)) THEN "ui" ELSE "free"
  /\ uiPc' = "w_ret"
  /\ UNCHANGED <<variant, snapVars, auxVars, devVars, objVars, uiCtx, uiIdx, uiCmd, fgWav, fgOut, localInst, exitRet, discovered, exitCalls, exitOps, disableSent, disableRaised, closeRaised, rejected, initOk, destroyed, pollVars>>

\* The wrapper's write returns or raises; either way the with-block releases the lock.
WrapperDone ==
  /\ uiPc = "w_io"
  /\ ioUi' = NoIO
  /\ lock' = "free"
  /\ \E ok \in BOOLEAN : lastErr' = IF ok THEN "ok" ELSE "Timeout"
  /\ uiPc' = "w_ret"
  /\ UNCHANGED <<variant, snapVars, auxVars, devVars, objVars, uiCtx, uiIdx, uiCmd, fgWav, fgOut, localInst, exitRet, discovered, exitCalls, exitOps, disableSent, disableRaised, closeRaised, rejected, initOk, destroyed, pollVars>>

\* An fg_update that swallows the exception of a failed fg_write and goes on with its next sub-command.
WrapperReturnContinue ==
  /\ uiPc = "w_ret"
  /\ lastErr' = "none"
  /\ IF uiCtx = "connect"
     THEN /\ uiPc' = IF lastErr = "ok" THEN "start_poll" ELSE "exit_begin"
          /\ initOk' = (lastErr = "ok")
          /\ uiCmd' = NoIO
          /\ UNCHANGED <<uiCtx, uiIdx, fgWav, fgOut>>
     ELSE IF uiCtx = "fg" /\ uiIdx < Len(FgSeq(fgWav, fgOut))
     THEN /\ uiPc' = "w_acquire"
          /\ uiIdx' = uiIdx + 1
          /\ uiCmd' = FgSeq(fgWav, fgOut)[uiIdx + 1]
          /\ UNCHANGED <<uiCtx, initOk, fgWav, fgOut>>
     ELSE /\ uiPc' = "idle"
          /\ uiCtx' = "idle"
          /\ uiIdx' = 1
          /\ uiCmd' = NoIO
          /\ fgWav' = "SQU"
          /\ fgOut' = TRUE
          /\ UNCHANGED initOk
  /\ UNCHANGED <<variant, snapVars, auxVars, lock, devVars, objVars, ioUi, localInst, exitRet, discovered, exitCalls, exitOps, disableSent, disableRaised, closeRaised, rejected, destroyed, pollVars>>

\* The wrapper's caller goes on: connect_instruments finishes or enters its handler; fg_update issues its next
\* fg_write or is abandoned by the exception; any other callback is over and the main loop idles.
WrapperReturn ==
  /\ uiPc = "w_ret"
  /\ lastErr' = "none"
  /\ IF uiCtx = "connect"
     THEN /\ uiPc' = IF lastErr = "ok" THEN "start_poll" ELSE "exit_begin"
          /\ initOk' = (lastErr = "ok")
          /\ uiCmd' = NoIO
          /\ UNCHANGED <<uiCtx, uiIdx, fgWav, fgOut>>
     ELSE IF uiCtx = "fg" /\ lastErr = "ok" /\ uiIdx < Len(FgSeq(fgWav, fgOut))
     THEN /\ uiPc' = "w_acquire"
          /\ uiIdx' = uiIdx + 1
          /\ uiCmd' = FgSeq(fgWav, fgOut)[uiIdx + 1]
          /\ UNCHANGED <<uiCtx, initOk, fgWav, fgOut>>
     ELSE /\ uiPc' = "idle"
          /\ uiCtx' = "idle"
          /\ uiIdx' = 1
          /\ uiCmd' = NoIO
          /\ fgWav' = "SQU"
          /\ fgOut' = TRUE
          /\ UNCHANGED initOk
  /\ UNCHANGED <<variant, snapVars, auxVars, lock, devVars, objVars, ioUi, localInst, exitRet, discovered, exitCalls, exitOps, disableSent, disableRaised, closeRaised, rejected, destroyed, pollVars>>

\* __init__ after connect_instruments: the daemon poll thread is created and started, then mainloop runs
\* (test7 starts its plot thread first).
StartPoll ==
  /\ uiPc = "start_poll"
  /\ pollPc' = "loop"
  /\ uiPc' = IF variant = "test7" THEN "start_plot" ELSE "idle"
  /\ UNCHANGED <<variant, snapVars, auxVars, lock, devVars, objVars, uiCtx, uiIdx, uiCmd, ioUi, fgWav, fgOut, localInst, exitRet, histVars, pollIdx, ioPoll, cycleFailed>>

\* slider_moved: ps_write("V1 ..."), with no check of self.inst.
slider_moved ==
  /\ uiPc = "idle"
  /\ uiCtx' = "slider"
  /\ uiCmd' = Cmd("PS", "write", "V1")
  /\ uiPc' = "w_acquire"
  /\ UNCHANGED <<variant, snapVars, auxVars, lock, devVars, objVars, uiIdx, ioUi, fgWav, fgOut, localInst, exitRet, histVars, pollVars>>

\* The scope variant's Run button: osc_write("ACQuire:STATE RUN"), with no check of self.inst.
osc_run ==
  /\ uiPc = "idle"
  /\ variant = "test8"
  /\ uiCtx' = "osc"
  /\ uiCmd' = Cmd("OSC", "write", "ACQuire:STATE RUN")
  /\ uiPc' = "w_acquire"
  /\ UNCHANGED <<variant, snapVars, auxVars, lock, devVars, objVars, uiIdx, ioUi, fgWav, fgOut, localInst, exitRet, histVars, pollVars>>

\* fg_update reading the widget values (wav, out): returns at once when self.inst is falsy, else starts its sequence of fg_write calls.
fg_update ==
  /\ uiPc = "idle"
  /\ \E wav \in {"SIN", "SQU"}, out \in BOOLEAN :
       /\ IF Truthy
          THEN /\ fgWav' = wav
               /\ fgOut' = out
               /\ uiCtx' = "fg"
               /\ uiIdx' = 1
               /\ uiCmd' = FgSeq(wav, out)[1]
               /\ uiPc' = "w_acquire"
          ELSE UNCHANGED <<fgWav, fgOut, uiCtx, uiIdx, uiCmd, uiPc>>
  /\ UNCHANGED <<variant, snapVars, auxVars, lock, devVars, objVars, ioUi, localInst, exitRet, histVars, pollVars>>

\* STOP / EXIT (or a direct call): safe_exit is entered from the main loop.
safe_exit_call ==
  /\ uiPc = "idle"
  /\ exitCalls < MaxExitCalls
  /\ exitRet' = "idle"
  /\ uiPc' = "exit_begin"
  /\ UNCHANGED <<variant, snapVars, auxVars, lock, devVars, objVars, uiCtx, uiIdx, uiCmd, ioUi, fgWav, fgOut, localInst, histVars, pollVars>>

Callback == slider_moved \/ osc_run \/ fg_update \/ safe_exit_call

\* The queued lambda runs in the main loop: update_live_labels(v_ps, v_dmm) shows the values the two locals
\* hold now.  Only the oldest queued call is followed; the names are then relative to the next call queued.
update_live_labels ==
  /\ uiPc = "idle"
  /\ ~destroyed
  /\ cbPending
  /\ cbPending' = FALSE
  /\ v_ps' = "own"
  /\ v_dmm' = "own"
  /\ UNCHANGED <<variant, snapOn, auxVars, lock, devVars, objVars, uiVars, histVars, pollVars>>

\* A main loop that goes on dispatching callbacks after the window was destroyed.
GuiCallbackAfterDestroy == Callback

\* A callback dispatched by the Tk main loop, which runs until the window is destroyed.
GuiCallback == ~destroyed /\ Callback

\* A method of the object called after safe_exit has destroyed the window.
LateCall == destroyed /\ Callback

\* A safe_exit that closes sessions only when self.inst is set.
ExitBeginSkipClose ==
  /\ uiPc = "exit_begin"
  /\ run_flag' = FALSE
  /\ exitCalls' = exitCalls + 1
  /\ exitOps' = 0
  /\ uiPc' = IF Truthy THEN "exit_acquire" ELSE "exit_close"
  /\ uiIdx' = IF Truthy THEN 1 ELSE Len(all_sessions) + 1
  /\ UNCHANGED <<variant, snapVars, auxVars, lock, devVars, RESOURCE_NAMES, all_sessions, instSet, inst, uiCtx, uiCmd, ioUi, fgWav, fgOut, localInst, exitRet, discovered, disableSent, disableRaised, closeRaised, rejected, lastErr, initOk, destroyed, pollVars>>

\* A safe_exit that leaves run_flag set.
ExitBeginKeepFlag ==
  /\ uiPc = "exit_begin"
  /\ exitCalls' = exitCalls + 1
  /\ exitOps' = 0
  /\ uiPc' = IF Truthy THEN "exit_acquire" ELSE "exit_close"
  /\ uiIdx' = 1
  /\ UNCHANGED <<variant, snapVars, auxVars, lock, devVars, objVars, uiCtx, uiCmd, ioUi, fgWav, fgOut, localInst, exitRet, discovered, disableSent, disableRaised, closeRaised, rejected, lastErr, initOk, destroyed, pollVars>>

\* safe_exit entry: run_flag is cleared, then `if self.inst:` decides whether the disable step runs.
ExitBegin ==
  /\ uiPc = "exit_begin"
  /\ run_flag' = FALSE
  /\ exitCalls' = exitCalls + 1
  /\ exitOps' = 0
  /\ uiPc' = IF Truthy THEN "exit_acquire" ELSE "exit_close"
  /\ uiIdx' = 1
  /\ UNCHANGED <<variant, snapVars, auxVars, lock, devVars, RESOURCE_NAMES, all_sessions, instSet, inst, uiCtx, uiCmd, ioUi, fgWav, fgOut, localInst, exitRet, discovered, disableSent, disableRaised, closeRaised, rejected, lastErr, initOk, destroyed, pollVars>>

\* safe_exit: `with self.lock:` of the disable step waits for the lock.
ExitAcquire ==
  /\ uiPc = "exit_acquire"
  /\ lock = "free"
  /\ lock' = "ui"
  /\ uiPc' = "exit_dis"
  /\ UNCHANGED <<variant, snapVars, auxVars, devVars, objVars, uiCtx, uiIdx, uiCmd, ioUi, fgWav, fgOut, localInst, exitRet, histVars, pollVars>>

\* safe_exit: the next disable write is issued; a raise leaves the with-block and the try, skipping the remaining writes.
ExitDisable ==
  /\ uiPc = "exit_dis"
  /\ LET c == DisableSeq(variant)[uiIdx] IN
     IF IssueErr(c.role) = "none"
     THEN /\ ioUi' = c
          /\ exitOps' = exitOps + 1
          /\ disableSent' = disableSent \cup {c.role}
          /\ uiPc' = "exit_dis_io"
          /\ UNCHANGED <<lock, uiIdx, disableRaised>>
     ELSE /\ lock' = "free"
          /\ exitOps' = IF IssueErr(c.role) = "InvalidSession" THEN exitOps + 1 ELSE exitOps
          /\ disableRaised' = TRUE
          /\ uiPc' = "exit_close"
          /\ uiIdx' = 1
          /\ UNCHANGED <<ioUi, disableSent>>
  /\ UNCHANGED <<variant, snapVars, auxVars, devVars, objVars, uiCtx, uiCmd, fgWav, fgOut, localInst, exitRet, discovered, exitCalls, closeRaised, rejected, lastErr, initOk, destroyed, pollVars>>

\* A disable step whose second write goes through a locked wrapper: the lock is requested again inside the with-block.
ExitDisableDoneViaWrapper ==
  /\ uiPc = "exit_dis_io"
  /\ ioUi' = NoIO
  /\ \E ok \in BOOLEAN :
       IF ok
       THEN /\ UNCHANGED disableRaised
            /\ IF uiIdx < Len(DisableSeq(variant))
               THEN /\ uiIdx' = uiIdx + 1
                    /\ uiPc' = "exit_acquire"
                    /\ UNCHANGED lock
               ELSE /\ uiIdx' = 1
                    /\ uiPc' = "exit_close"
                    /\ lock' = "free"
       ELSE /\ disableRaised' = TRUE
            /\ lock' = "free"
            /\ uiIdx' = 1
            /\ uiPc' = "exit_close"
  /\ UNCHANGED <<variant, snapVars, auxVars, devVars, objVars, uiCtx, uiCmd, fgWav, fgOut, localInst, exitRet, discovered, exitCalls, exitOps, disableSent, closeRaised, rejected, lastErr, initOk, destroyed, pollVars>>

\* safe_exit: the disable write returns (next write, or the lock is released after the last) or raises (lock released, rest skipped).
ExitDisableDone ==
  /\ uiPc = "exit_dis_io"
  /\ ioUi' = NoIO
  /\ \E ok \in BOOLEAN :
       IF ok
       THEN /\ UNCHANGED disableRaised
            /\ IF uiIdx < Len(DisableSeq(variant))
               THEN /\ uiIdx' = uiIdx + 1
                    /\ uiPc' = "exit_dis"
                    /\ UNCHANGED lock
               ELSE /\ uiIdx' = 1
                    /\ uiPc' = "exit_close"
                    /\ lock' = "free"
       ELSE /\ disableRaised' = TRUE
            /\ lock' = "free"
            /\ uiIdx' = 1
            /\ uiPc' = "exit_close"
  /\ UNCHANGED <<variant, snapVars, auxVars, devVars, objVars, uiCtx, uiCmd, fgWav, fgOut, localInst, exitRet, discovered, exitCalls, exitOps, disableSent, closeRaised, rejected, lastErr, initOk, destroyed, pollVars>>

\* What ses.close() can do: close the session, raise with the session closed all the same, or (on an open
\* session) raise and leave it open.
CloseResults(s) == {"closed", "raised_closed"} \cup (IF isOpen[s] THEN {"raised_open"} ELSE {})

\* ses.close() with result res, as the transport answers it.
CloseSession(s, res) ==
  /\ closeCalls' = [closeCalls EXCEPT ![s] = @ + 1]
  /\ isOpen' = IF res = "raised_open" THEN isOpen ELSE [isOpen EXCEPT ![s] = FALSE]
  /\ closeRaised' = (closeRaised \/ res # "closed")

\* A close loop with one try around the whole loop: the first close that raises ends it.
ExitCloseAbort ==
  /\ uiPc = "exit_close"
  /\ uiIdx <= Len(all_sessions)
  /\ \E res \in CloseResults(all_sessions[uiIdx]) :
       /\ CloseSession(all_sessions[uiIdx], res)
       /\ uiIdx' = IF res = "closed" THEN uiIdx + 1 ELSE Len(all_sessions) + 1
  /\ exitOps' = exitOps + 1
  /\ UNCHANGED <<variant, snapVars, auxVars, lock, everOpened, rmCloseCalls, objVars, uiPc, uiCtx, uiCmd, ioUi, fgWav, fgOut, localInst, exitRet, discovered, exitCalls, disableSent, disableRaised, rejected, lastErr, initOk, destroyed, pollVars>>

\* safe_exit: one iteration of `for ses in self._all_sessions`, each close in its own try.
ExitClose ==
  /\ uiPc = "exit_close"
  /\ uiIdx <= Len(all_sessions)
  /\ \E res \in CloseResults(all_sessions[uiIdx]) :
       CloseSession(all_sessions[uiIdx], res)
  /\ uiIdx' = uiIdx + 1
  /\ exitOps' = exitOps + 1
  /\ UNCHANGED <<variant, snapVars, auxVars, lock, everOpened, rmCloseCalls, objVars, uiPc, uiCtx, uiCmd, ioUi, fgWav, fgOut, localInst, exitRet, discovered, exitCalls, disableSent, disableRaised, rejected, lastErr, initOk, destroyed, pollVars>>

\* An rm.close() that does not wait for the end of the close loop.
ExitRmCloseEarly ==
  /\ uiPc = "exit_close"
  /\ rmCloseCalls' = rmCloseCalls + 1
  /\ uiPc' = "exit_quit"
  /\ UNCHANGED <<variant, snapVars, auxVars, lock, isOpen, everOpened, closeCalls, objVars, uiCtx, uiIdx, uiCmd, ioUi, fgWav, fgOut, localInst, exitRet, histVars, pollVars>>

\* safe_exit: after the loop, rm.close() in its own try.
ExitRmClose ==
  /\ uiPc = "exit_close"
  /\ uiIdx > Len(all_sessions)
  /\ rmCloseCalls' = rmCloseCalls + 1
  /\ uiPc' = "exit_quit"
  /\ UNCHANGED <<variant, snapVars, auxVars, lock, isOpen, everOpened, closeCalls, objVars, uiCtx, uiIdx, uiCmd, ioUi, fgWav, fgOut, localInst, exitRet, histVars, pollVars>>

\* safe_exit: self.quit(); self.destroy(); then the caller goes on (the constructor, or the main loop).
ExitQuit ==
  /\ uiPc = "exit_quit"
  /\ destroyed' = TRUE
  /\ uiPc' = IF exitRet = "init" THEN "start_poll" ELSE "idle"
  /\ uiIdx' = 1
  /\ uiCtx' = "idle"
  /\ uiCmd' = NoIO
  /\ UNCHANGED <<variant, snapVars, auxVars, lock, devVars, objVars, ioUi, fgWav, fgOut, localInst, exitRet, discovered, exitCalls, exitOps, disableSent, disableRaised, closeRaised, rejected, lastErr, initOk, pollVars>>

ExitNext == ExitBegin \/ ExitAcquire \/ ExitDisable \/ ExitDisableDone \/ ExitClose \/ ExitRmClose \/ ExitQuit

\* A loop that tests run_flag only when there is nothing to poll.
PollCheckAfterCycle ==
  /\ pollPc = "loop"
  /\ pollPc' = IF Truthy THEN "acquire" ELSE IF ~run_flag THEN "done" ELSE "sleep"
  /\ cycleFailed' = ((Truthy \/ run_flag) /\ cycleFailed)
  /\ UNCHANGED <<variant, snapVars, auxVars, lock, devVars, objVars, uiVars, histVars, pollIdx, ioPoll>>

\* poll_loop: `while self.run_flag:` then `if self.inst:`; the memory of a dropped cycle ends with the loop.
PollCheck ==
  /\ pollPc = "loop"
  /\ pollPc' = IF ~run_flag THEN "done" ELSE IF Truthy THEN "acquire" ELSE "sleep"
  /\ cycleFailed' = (run_flag /\ cycleFailed)
  /\ UNCHANGED <<variant, snapVars, auxVars, lock, devVars, objVars, uiVars, histVars, pollIdx, ioPoll>>

\* Entering the cycle's with-block without waiting for the lock.
PollAcquireNoWait ==
  /\ pollPc = "acquire"
  /\ lock' = "poll"
  /\ pollPc' = "body"
  /\ pollIdx' = 1
  /\ UNCHANGED <<variant, snapVars, auxVars, devVars, objVars, uiVars, histVars, ioPoll, cycleFailed>>

\* poll_loop: `with self.lock:` blocks until the lock is free.
PollAcquire ==
  /\ pollPc = "acquire"
  /\ lock = "free"
  /\ lock' = "poll"
  /\ pollPc' = "body"
  /\ pollIdx' = 1
  /\ UNCHANGED <<variant, snapVars, auxVars, devVars, objVars, uiVars, histVars, ioPoll, cycleFailed>>

\* A cycle without the try/except: a call that raises at once ends the thread.
PollIssueStopOnError ==
  /\ pollPc = "body"
  /\ IF IssueErr(PollSeq[pollIdx].role) = "none"
     THEN /\ ioPoll' = PollSeq[pollIdx]
          /\ pollPc' = "io"
          /\ UNCHANGED <<lock, cycleFailed>>
     ELSE /\ lock' = "free"
          /\ pollPc' = "done"
          /\ cycleFailed' = TRUE
          /\ UNCHANGED ioPoll
  /\ UNCHANGED <<variant, snapVars, auxVars, devVars, objVars, uiVars, histVars, pollIdx>>

\* poll_loop: the next query/write of the cycle is issued, or raises at once (lock released, cycle dropped).
PollIssue ==
  /\ pollPc = "body"
  /\ IF IssueErr(PollSeq[pollIdx].role) = "none"
     THEN /\ ioPoll' = PollSeq[pollIdx]
          /\ pollPc' = "io"
          /\ UNCHANGED <<lock, cycleFailed>>
     ELSE /\ lock' = "free"
          /\ pollPc' = "sleep"
          /\ cycleFailed' = TRUE
          /\ UNCHANGED ioPoll
  /\ UNCHANGED <<variant, snapVars, auxVars, devVars, objVars, uiVars, histVars, pollIdx>>

\* poll_loop: `v_ps = float(...)` after the PS query and `v_dmm = float(...)` after the DMM query, when the
\* call returned and its reply parsed (ok); a value assigned while an update_live_labels call is still queued
\* comes from a cycle later than the one that queued it.
SnapAssign(ok) ==
  LET tag == IF cbPending THEN "later" ELSE "own" IN
  /\ v_ps' = IF snapOn /\ ok /\ ioPoll.kind = "query" /\ ioPoll.role = "PS" THEN tag ELSE v_ps
  /\ v_dmm' = IF snapOn /\ ok /\ ioPoll.kind = "query" /\ ioPoll.role = "DMM" THEN tag ELSE v_dmm

\* A cycle without the try/except: a failing call ends the thread.
PollDoneStopOnError ==
  /\ pollPc = "io"
  /\ ioPoll' = NoIO
  /\ \E res \in {"ok", "Timeout"} \cup (IF ioPoll.kind = "query" THEN {"ParseError"} ELSE {}) :
       IF res = "ok"
       THEN /\ IF pollIdx < Len(PollSeq)
               THEN /\ pollIdx' = pollIdx + 1
                    /\ pollPc' = "body"
                    /\ UNCHANGED <<lock, cycleFailed>>
               ELSE /\ lock' = "free"
                    /\ pollPc' = "publish"
                    /\ UNCHANGED <<pollIdx, cycleFailed>>
       ELSE /\ lock' = "free"
            /\ pollPc' = "done"
            /\ cycleFailed' = TRUE
            /\ UNCHANGED pollIdx
  /\ SnapAssign(pollPc' \in {"body", "publish"})
  /\ UNCHANGED <<variant, snapOn, cbPending, auxVars, isOpen, everOpened, closeCalls, rmCloseCalls, objVars, uiVars, histVars>>

\* A cycle that takes the lock per call, as the wrappers do, instead of once around the sequence.
PollDoneReleaseEach ==
  /\ pollPc = "io"
  /\ ioPoll' = NoIO
  /\ lock' = "free"
  /\ \E res \in {"ok", "Timeout"} \cup (IF ioPoll.kind = "query" THEN {"ParseError"} ELSE {}) :
       IF res = "ok"
       THEN /\ IF pollIdx < Len(PollSeq)
               THEN /\ pollIdx' = pollIdx + 1
                    /\ pollPc' = "body"
                    /\ UNCHANGED cycleFailed
               ELSE /\ pollPc' = "publish"
                    /\ UNCHANGED <<pollIdx, cycleFailed>>
       ELSE /\ pollPc' = "sleep"
            /\ cycleFailed' = TRUE
            /\ UNCHANGED pollIdx
  /\ SnapAssign(pollPc' \in {"body", "publish"})
  /\ UNCHANGED <<variant, snapOn, cbPending, auxVars, isOpen, everOpened, closeCalls, rmCloseCalls, objVars, uiVars, histVars>>

\* A cycle whose failing call leaves the lock held (acquire/release by hand, no with-block).
PollDoneKeepLock ==
  /\ pollPc = "io"
  /\ ioPoll' = NoIO
  /\ \E res \in {"ok", "Timeout"} \cup (IF ioPoll.kind = "query" THEN {"ParseError"} ELSE {}) :
       IF res = "ok"
       THEN /\ IF pollIdx < Len(PollSeq)
               THEN /\ pollIdx' = pollIdx + 1
                    /\ pollPc' = "body"
                    /\ UNCHANGED <<lock, cycleFailed>>
               ELSE /\ lock' = "free"
                    /\ pollPc' = "publish"
                    /\ UNCHANGED <<pollIdx, cycleFailed>>
       ELSE /\ pollPc' = "sleep"
            /\ cycleFailed' = TRUE
            /\ UNCHANGED <<pollIdx, lock>>
  /\ SnapAssign(pollPc' \in {"body", "publish"})
  /\ UNCHANGED <<variant, snapOn, cbPending, auxVars, isOpen, everOpened, closeCalls, rmCloseCalls, objVars, uiVars, histVars>>

\* poll_loop: the call returns (and a query's reply parses), or raises; leaving the with-block releases the lock.
PollDone ==
  /\ pollPc = "io"
  /\ ioPoll' = NoIO
  /\ \E res \in {"ok", "Timeout"} \cup (IF ioPoll.kind = "query" THEN {"ParseError"} ELSE {}) :
       IF res = "ok"
       THEN /\ IF pollIdx < Len(PollSeq)
               THEN /\ pollIdx' = pollIdx + 1
                    /\ pollPc' = "body"
                    /\ UNCHANGED <<lock, cycleFailed>>
               ELSE /\ lock' = "free"
                    /\ pollPc' = "publish"
                    /\ UNCHANGED <<pollIdx, cycleFailed>>
       ELSE /\ lock' = "free"
            /\ pollPc' = "sleep"
            /\ cycleFailed' = TRUE
            /\ UNCHANGED pollIdx
  /\ SnapAssign(pollPc' \in {"body", "publish"})
  /\ UNCHANGED <<variant, snapOn, cbPending, auxVars, isOpen, everOpened, closeCalls, rmCloseCalls, objVars, uiVars, histVars>>

\* poll_loop: self.after(0, lambda: self.update_live_labels(v_ps, v_dmm)) queues a call for the UI thread; the
\* lambda names the locals and reads them when it runs.  After destroy() self.after raises inside the try.
PollPublish ==
  /\ pollPc = "publish"
  /\ pollPc' = "sleep"
  /\ cycleFailed' = FALSE
  /\ IF snapOn /\ ~destroyed /\ ~cbPending
     THEN cbPending' = TRUE /\ v_ps' = "own" /\ v_dmm' = "own"
     ELSE UNCHANGED <<cbPending, v_ps, v_dmm>>
  /\ UNCHANGED <<variant, snapOn, auxVars, lock, devVars, objVars, uiVars, histVars, pollIdx, ioPoll>>

\* poll_loop: time.sleep(0.5), then back to the loop condition.
PollSleep ==
  /\ pollPc = "sleep"
  /\ pollPc' = "loop"
  /\ UNCHANGED <<variant, snapVars, auxVars, lock, devVars, objVars, uiVars, histVars, pollIdx, ioPoll, cycleFailed>>

PollNext == PollCheck \/ PollAcquire \/ PollIssue \/ PollDone \/ PollPublish \/ PollSleep

InitNext == ConnectDiscover \/ InitOpen \/ InitAssign \/ ConfigWrite \/ ConfigDone \/ StartPoll

WrapperNext == WrapperAcquire \/ WrapperIssue \/ WrapperDone \/ WrapperReturn

\* The program as the window runs it.
GuiNext == InitNext \/ WrapperNext \/ GuiCallback \/ ExitNext \/ PollNext

Next == GuiNext \/ LateCall

Spec == Init /\ [][Next]_vars

\* The window's own behaviours: no method is called once the window is destroyed.
SpecGui == Init /\ [][GuiNext]_vars

\* Both threads keep being scheduled and every device call returns or times out: safe_exit, once entered,
\* and the poll thread each take their next step when they can.
FairSpec == Spec /\ WF_vars(ExitNext) /\ WF_vars(PollNext)

\* The window's own behaviours with the constructor, safe_exit and the poll thread each taking their next step
\* when they can.
FairGui == SpecGui /\ WF_vars(InitNext) /\ WF_vars(ExitNext) /\ WF_vars(PollNext)

\* The window of test6.py with the snapshot of poll_loop followed.
InitSnap == variant = "test6" /\ snapOn = TRUE /\ BenchFields /\ LoggerOff /\ WaveOff /\ ScriptsOff

\* The window's own behaviours together with the label updates the main loop runs.
SpecSnap == InitSnap /\ [][GuiNext \/ update_live_labels]_vars

\* ---------------------------------------------------------------- the window without a lock (test4.py)

\* test4.py has the fields inst and run_flag, the same three roles and the same poll sequence, but no lock, no
\* session registry and no resource-manager close: lock stays "free" and all_sessions stays empty.
Test4Roles == {"PS", "DMM", "FGEN"}

\* State after BenchGUI.__init__ of test4.py returned: connect_instruments either opened and configured the
\* three instruments (initOk), or failed in discovery and ran safe_exit with self.inst still None; the poll
\* thread has been started in both cases.
InitTest4 ==
  /\ variant = "test4"
  /\ snapOn = FALSE /\ cbPending = FALSE /\ v_ps = "unset" /\ v_dmm = "unset"
  /\ initOk \in BOOLEAN
  /\ discovered = (IF initOk THEN Test4Roles ELSE {})
  /\ RESOURCE_NAMES = [r \in AllRoles |-> initOk /\ r \in Test4Roles]
  /\ all_sessions = <<>>
  /\ localInst = (IF initOk THEN [r \in Test4Roles |-> r] ELSE EmptyMap)
  /\ inst = localInst
  /\ instSet = initOk
  /\ run_flag = initOk
  /\ lock = "free"
  /\ isOpen = [r \in AllRoles |-> initOk /\ r \in Test4Roles]
  /\ everOpened = (IF initOk THEN Test4Roles ELSE {})
  /\ closeCalls = [r \in AllRoles |-> 0]
  /\ rmCloseCalls = 0
  /\ uiPc = "idle" /\ uiCtx = "idle" /\ uiIdx = 1 /\ uiCmd = NoIO /\ ioUi = NoIO
  /\ fgWav = "SQU" /\ fgOut = TRUE
  /\ exitCalls = (IF initOk THEN 0 ELSE 1)
  /\ exitRet = "init" /\ exitOps = 0
  /\ disableSent = {} /\ disableRaised = FALSE /\ closeRaised = FALSE
  /\ rejected = "none" /\ lastErr = "none"
  /\ destroyed = ~initOk
  /\ pollPc = "loop" /\ pollIdx = 1 /\ ioPoll = NoIO /\ cycleFailed = FALSE
  /\ LoggerOff /\ WaveOff /\ ScriptsOff

\* test4 slider_moved: `if self.inst: self.inst["PS"].write(f"V1 {val}")`, issued with no lock; a write on a
\* closed session raises at once into Tk's callback handler.
test4_slider_moved ==
  /\ uiPc = "idle"
  /\ ~destroyed
  /\ Truthy
  /\ IF IssueErr("PS") = "none"
     THEN ioUi' = Cmd("PS", "write", "V1") /\ uiPc' = "t4_slider_io"
     ELSE UNCHANGED <<ioUi, uiPc>>
  /\ UNCHANGED <<variant, snapVars, auxVars, lock, devVars, objVars, uiCtx, uiIdx, uiCmd, fgWav, fgOut, localInst, exitRet, histVars, pollVars>>

\* test4 slider_moved: the write returns or raises; the callback is over either way.
test4_slider_done ==
  /\ uiPc = "t4_slider_io"
  /\ ioUi' = NoIO
  /\ uiPc' = "idle"
  /\ UNCHANGED <<variant, snapVars, auxVars, lock, devVars, objVars, uiCtx, uiIdx, uiCmd, fgWav, fgOut, localInst, exitRet, histVars, pollVars>>

\* test4 safe_exit entry (STOP / EXIT): run_flag is cleared; `if self.inst:` guards the disable writes and the closes.
test4_safe_exit ==
  /\ uiPc = "idle"
  /\ ~destroyed
  /\ exitCalls < MaxExitCalls
  /\ run_flag' = FALSE
  /\ exitCalls' = exitCalls + 1
  /\ uiIdx' = 1
  /\ uiPc' = IF Truthy THEN "t4_dis" ELSE "t4_quit"
  /\ UNCHANGED <<variant, snapVars, auxVars, lock, devVars, RESOURCE_NAMES, all_sessions, instSet, inst, uiCtx, uiCmd, ioUi, fgWav, fgOut, localInst, exitRet, discovered, exitOps, disableSent, disableRaised, closeRaised, rejected, lastErr, initOk, destroyed, pollVars>>

\* test4 safe_exit: the next disable write is issued without a lock, or raises at once and the rest is skipped.
test4_disable ==
  /\ uiPc = "t4_dis"
  /\ LET c == DisableSeq(variant)[uiIdx] IN
     IF IssueErr(c.role) = "none"
     THEN /\ ioUi' = c
          /\ disableSent' = disableSent \cup {c.role}
          /\ uiPc' = "t4_dis_io"
          /\ UNCHANGED <<uiIdx, disableRaised>>
     ELSE /\ disableRaised' = TRUE
          /\ uiPc' = "t4_close"
          /\ uiIdx' = 1
          /\ UNCHANGED <<ioUi, disableSent>>
  /\ UNCHANGED <<variant, snapVars, auxVars, lock, devVars, objVars, uiCtx, uiCmd, fgWav, fgOut, localInst, exitRet, discovered, exitCalls, exitOps, closeRaised, rejected, lastErr, initOk, destroyed, pollVars>>

\* test4 safe_exit: the disable write returns (next write, or on to the closes) or raises (rest skipped).
test4_disable_done ==
  /\ uiPc = "t4_dis_io"
  /\ ioUi' = NoIO
  /\ \E ok \in BOOLEAN :
       IF ok /\ uiIdx < Len(DisableSeq(variant))
       THEN uiIdx' = uiIdx + 1 /\ uiPc' = "t4_dis" /\ UNCHANGED disableRaised
       ELSE uiIdx' = 1 /\ uiPc' = "t4_close" /\ disableRaised' = (disableRaised \/ ~ok)
  /\ UNCHANGED <<variant, snapVars, auxVars, lock, devVars, objVars, uiCtx, uiCmd, fgWav, fgOut, localInst, exitRet, discovered, exitCalls, exitOps, disableSent, closeRaised, rejected, lastErr, initOk, destroyed, pollVars>>

\* test4 safe_exit: `for i in self.inst.values(): i.close()` with no try: a close that raises ends safe_exit
\* before quit() and destroy().
test4_close ==
  /\ uiPc = "t4_close"
  /\ uiIdx <= Len(RoleSeq(variant))
  /\ \E res \in CloseResults(RoleSeq(variant)[uiIdx]) :
       /\ CloseSession(RoleSeq(variant)[uiIdx], res)
       /\ IF res = "closed"
          THEN uiIdx' = uiIdx + 1 /\ uiPc' = (IF uiIdx = Len(RoleSeq(variant)) THEN "t4_quit" ELSE "t4_close")
          ELSE uiIdx' = 1 /\ uiPc' = "idle"
  /\ UNCHANGED <<variant, snapVars, auxVars, lock, everOpened, rmCloseCalls, objVars, uiCtx, uiCmd, ioUi, fgWav, fgOut, localInst, exitRet, discovered, exitCalls, exitOps, disableSent, disableRaised, rejected, lastErr, initOk, destroyed, pollVars>>

\* test4 safe_exit: self.quit(); self.destroy().
test4_quit ==
  /\ uiPc = "t4_quit"
  /\ destroyed' = TRUE
  /\ uiPc' = "idle"
  /\ uiIdx' = 1
  /\ UNCHANGED <<variant, snapVars, auxVars, lock, devVars, objVars, uiCtx, uiCmd, ioUi, fgWav, fgOut, localInst, exitRet, discovered, exitCalls, exitOps, disableSent, disableRaised, closeRaised, rejected, lastErr, initOk, pollVars>>

\* test4 poll_loop: the try block is entered right after `if self.inst:`; there is no lock to wait for.
test4_poll_enter ==
  /\ pollPc = "acquire"
  /\ pollPc' = "body"
  /\ pollIdx' = 1
  /\ UNCHANGED <<variant, snapVars, auxVars, lock, devVars, objVars, uiVars, histVars, ioPoll, cycleFailed>>

\* The UI thread of test4.py.
Test4UiNext == test4_slider_moved \/ test4_slider_done \/ test4_safe_exit \/ test4_disable \/ test4_disable_done \/ test4_close \/ test4_quit

\* The poll thread of test4.py: the loop test, the three calls of the cycle, the label updates and the sleep
\* are those of the later variants, without the lock.
Test4PollNext == PollCheck \/ test4_poll_enter \/ PollIssue \/ PollDone \/ PollPublish \/ PollSleep

SpecTest4 == InitTest4 /\ [][Test4UiNext \/ Test4PollNext]_vars

\* ---------------------------------------------------------------- sweep scripts (test2.py, test3_Square.py)

\* The values of `for v_set in range(...)`: 5..9 in test2.py, 2..11 in test3_Square.py.
FirstVSet(p) == IF p = "test2" THEN 5 ELSE 2

LastVSet(p) == IF p = "test2" THEN 9 ELSE 11

\* configure_fgen followed by configure_ps, as main calls them.
SweepConfigSeq(p) ==
  (IF p = "test2"
   THEN <<Cmd("FGEN", "write", "*RST"), Cmd("FGEN", "write", "FUNC SIN"), Cmd("FGEN", "write", "FREQ 1000"), Cmd("FGEN", "write", "VOLT 1.0"), Cmd("FGEN", "write", "VOLT:OFFS 0"), Cmd("FGEN", "write", "OUTP1 ON")>>
   ELSE <<Cmd("FGEN", "write", "*RST"), Cmd("FGEN", "write", "FUNC SQU"), Cmd("FGEN", "write", "FREQ 2000"), Cmd("FGEN", "write", "UNIT:VOLT HIGHL"), Cmd("FGEN", "write", "VOLT:HIGH 1.0"), Cmd("FGEN", "write", "VOLT:LOW 0.0"), Cmd("FGEN", "write", "FUNC:SQU:DCYC 50"), Cmd("FGEN", "write", "OUTP1 ON")>>)
  \o <<Cmd("PS", "write", "*RST"), Cmd("PS", "write", "I1 2"), Cmd("PS", "write", "OP1 0")>>

\* The calls of one pass of the sweep loop; the last two are those of read_dmm_dc.
SweepSeq == <<Cmd("PS", "write", "V1"), Cmd("PS", "write", "OP1 1"), Cmd("PS", "query", "V1?"), Cmd("DMM", "write", "CONF:VOLT:DC 10"), Cmd("DMM", "query", "READ?")>>

\* The two writes of the shutdown block.
ShutdownSeq == <<Cmd("PS", "write", "OP1 0"), Cmd("FGEN", "write", "OUTP1 OFF")>>

\* The outputs that are on after the device has taken command c: OUTP1 ON and OP1 1 switch the role's output
\* on; OUTP1 OFF, OP1 0 and *RST switch it off.
After(c, on) ==
  IF c.cmd \in {"OUTP1 ON", "OP1 1"} THEN on \cup {c.role}
  ELSE IF c.cmd \in {"OUTP1 OFF", "OP1 0", "*RST"} THEN on \ {c.role}
  ELSE on

\* main() of one of the two scripts is about to call init_instruments.
InitSweep ==
  /\ BenchInit
  /\ variant = "test6"
  /\ LoggerOff /\ WaveOff
  /\ outOn = {}
  /\ cfPc = "off" /\ cfStack = <<>> /\ fgen_thread = <<>> /\ quitMainLoop = FALSE
  /\ swProg \in {"test2", "test3"}
  /\ swPc = "open"
  /\ swIdx = 1
  /\ v_set = 0
  /\ swInst = <<>>

\* init_instruments: one rm.open_resource(alias); a VisaIOError becomes SystemExit, which ends the script
\* with the sessions opened so far left as they are.  The IDN printout that follows catches its errors.
sweep_open ==
  /\ swPc = "open"
  /\ LET r == RoleSeq("test2")[swIdx] IN
     \E ok \in BOOLEAN :
       IF ok
       THEN /\ isOpen' = [isOpen EXCEPT ![r] = TRUE]
            /\ everOpened' = everOpened \cup {r}
            /\ swInst' = Append(swInst, r)
            /\ swIdx' = IF swIdx = Len(RoleSeq("test2")) THEN 1 ELSE swIdx + 1
            /\ swPc' = IF swIdx = Len(RoleSeq("test2")) THEN "config" ELSE "open"
       ELSE /\ swPc' = "exited"
            /\ UNCHANGED <<isOpen, everOpened, swInst, swIdx>>
  /\ UNCHANGED <<variant, lock, closeCalls, rmCloseCalls, objVars, uiVars, histVars, pollVars, snapVars, lgVars, wvVars, cfVars, outOn, swProg, v_set>>

\* configure_fgen / configure_ps: the next write; an exception is not caught anywhere and ends the script.
sweep_config ==
  /\ swPc = "config"
  /\ LET c == SweepConfigSeq(swProg)[swIdx] IN
     \E ok \in BOOLEAN :
       IF ok
       THEN /\ outOn' = After(c, outOn)
            /\ swIdx' = IF swIdx = Len(SweepConfigSeq(swProg)) THEN 1 ELSE swIdx + 1
            /\ swPc' = IF swIdx = Len(SweepConfigSeq(swProg)) THEN "sweep" ELSE "config"
            /\ v_set' = IF swIdx = Len(SweepConfigSeq(swProg)) THEN FirstVSet(swProg) ELSE v_set
       ELSE /\ swPc' = "exited"
            /\ UNCHANGED <<outOn, swIdx, v_set>>
  /\ UNCHANGED <<variant, lock, devVars, objVars, uiVars, histVars, pollVars, snapVars, lgVars, wvVars, cfVars, swProg, swInst>>

\* One call of the sweep loop's body.  The two PS writes and the PS query (with its float()) are not guarded:
\* an exception ends the script.  read_dmm_dc catches its own errors and returns nan.
sweep_step ==
  /\ swPc = "sweep"
  /\ LET c == SweepSeq[swIdx]
         last == swIdx = Len(SweepSeq) IN
     \E ok \in BOOLEAN :
       IF ok \/ c.role = "DMM"
       THEN /\ outOn' = IF ok THEN After(c, outOn) ELSE outOn
            /\ swIdx' = IF last \/ ~ok THEN 1 ELSE swIdx + 1
            /\ v_set' = IF (last \/ ~ok) /\ v_set < LastVSet(swProg) THEN v_set + 1 ELSE v_set
            /\ swPc' = IF (last \/ ~ok) /\ v_set = LastVSet(swProg) THEN "shutdown" ELSE "sweep"
       ELSE /\ swPc' = "exited"
            /\ UNCHANGED <<outOn, swIdx, v_set>>
  /\ UNCHANGED <<variant, lock, devVars, objVars, uiVars, histVars, pollVars, snapVars, lgVars, wvVars, cfVars, swProg, swInst>>

\* The shutdown block's writes, not guarded either.
sweep_shutdown ==
  /\ swPc = "shutdown"
  /\ LET c == ShutdownSeq[swIdx] IN
     \E ok \in BOOLEAN :
       IF ok
       THEN /\ outOn' = After(c, outOn)
            /\ swIdx' = IF swIdx = Len(ShutdownSeq) THEN 1 ELSE swIdx + 1
            /\ swPc' = IF swIdx = Len(ShutdownSeq) THEN "close" ELSE "shutdown"
       ELSE /\ swPc' = "exited"
            /\ UNCHANGED <<outOn, swIdx>>
  /\ UNCHANGED <<variant, lock, devVars, objVars, uiVars, histVars, pollVars, snapVars, lgVars, wvVars, cfVars, swProg, v_set, swInst>>

\* `for i in inst.values(): i.close()`: a close that raises ends the script; after the last one main returns.
sweep_close ==
  /\ swPc = "close"
  /\ LET r == swInst[swIdx] IN
     \E res \in CloseResults(r) :
       /\ closeCalls' = [closeCalls EXCEPT ![r] = @ + 1]
       /\ isOpen' = IF res = "raised_open" THEN isOpen ELSE [isOpen EXCEPT ![r] = FALSE]
       /\ swPc' = IF res = "closed" /\ swIdx < Len(swInst) THEN "close" ELSE "exited"
       /\ swIdx' = IF res = "closed" /\ swIdx < Len(swInst) THEN swIdx + 1 ELSE swIdx
  /\ UNCHANGED <<variant, lock, everOpened, rmCloseCalls, objVars, uiVars, histVars, pollVars, snapVars, lgVars, wvVars, cfVars, outOn, swProg, v_set, swInst>>

NextSweep == sweep_open \/ sweep_config \/ sweep_step \/ sweep_shutdown \/ sweep_close

SpecSweep == InitSweep /\ [][NextSweep]_vars

\* ---------------------------------------------------------------- Control_Function_Generator.py

\* How many times start_waveform starts a generator thread.
MaxStarts == 2

\* The entries of the OptionMenu.
Funcs == {"SIN", "SQU", "RAMP"}

\* The calls of configure_fgen(fgen, func, ...) in order, time.sleep(duration) among them.
WorkerSeq(func) ==
  <<Cmd("FGEN", "write", "*RST"), Cmd("FGEN", "write", "FUNC"), Cmd("FGEN", "write", "FREQ"), Cmd("FGEN", "write", "VOLT:HIGH"), Cmd("FGEN", "write", "VOLT:LOW")>>
  \o (IF func = "SQU" THEN <<Cmd("FGEN", "write", "FUNC:SQU:DCYC 50")>> ELSE <<>>)
  \o <<Cmd("FGEN", "write", "OUTP1 ON"), Cmd("FGEN", "sleep", "time.sleep"), Cmd("FGEN", "write", "OUTP1 OFF"), Cmd("FGEN", "write", "*RST")>>

\* The innermost running activation of start_waveform.
TopFrame == cfStack[Len(cfStack)]

PopFrame == SubSeq(cfStack, 1, Len(cfStack) - 1)

SetTop(p) == [cfStack EXCEPT ![Len(cfStack)].pc = p]

\* The main thread is inside an event loop: root.mainloop(), or the plot window's mainloop of the
\* innermost start_waveform.  Either loop dispatches the Start button.
InEventLoop == cfPc = "mainloop" /\ (IF cfStack = <<>> THEN TRUE ELSE TopFrame.pc = "plot")

\* The module has opened the generator, read its *IDN? and built the window; root.mainloop() starts.
InitCfg ==
  /\ variant = "test6"
  /\ snapOn = FALSE /\ cbPending = FALSE /\ v_ps = "unset" /\ v_dmm = "unset"
  /\ discovered = {} /\ RESOURCE_NAMES = [r \in AllRoles |-> FALSE]
  /\ all_sessions = <<>> /\ localInst = EmptyMap /\ inst = EmptyMap /\ instSet = FALSE
  /\ run_flag = TRUE /\ lock = "free"
  /\ isOpen = [r \in AllRoles |-> r = "FGEN"]
  /\ everOpened = {"FGEN"}
  /\ closeCalls = [r \in AllRoles |-> 0]
  /\ rmCloseCalls = 0
  /\ uiPc = "connect" /\ uiCtx = "connect" /\ uiIdx = 1 /\ uiCmd = NoIO /\ ioUi = NoIO
  /\ fgWav = "SQU" /\ fgOut = TRUE
  /\ exitCalls = 0 /\ exitRet = "init" /\ exitOps = 0
  /\ disableSent = {} /\ disableRaised = FALSE /\ closeRaised = FALSE
  /\ rejected = "none" /\ lastErr = "none" /\ initOk = FALSE /\ destroyed = FALSE
  /\ pollPc = "not_started" /\ pollIdx = 1 /\ ioPoll = NoIO /\ cycleFailed = FALSE
  /\ LoggerOff /\ WaveOff
  /\ outOn = {}
  /\ swProg = "off" /\ swPc = "off" /\ swIdx = 1 /\ v_set = 0 /\ swInst = <<>>
  /\ cfPc = "mainloop" /\ cfStack = <<>> /\ fgen_thread = <<>> /\ quitMainLoop = FALSE

\* start_waveform up to the call of live_plot_waveform: the Start button is dispatched by whichever event
\* loop the main thread is in, the thread running configure_fgen is created and started.  (A duration
\* that float() rejects ends the callback before anything is changed.)
cfg_start_waveform ==
  /\ InEventLoop /\ ~quitMainLoop
  /\ Len(fgen_thread) < MaxStarts
  /\ \E f \in Funcs : fgen_thread' = Append(fgen_thread, [func |-> f, idx |-> 1, st |-> "run"])
  /\ cfStack' = Append(cfStack, [pc |-> "live_plot", th |-> Len(fgen_thread) + 1])
  /\ UNCHANGED <<benchVars, lgVars, wvVars, outOn, swVars, cfPc, quitMainLoop>>

\* live_plot_waveform up to plot_root.mainloop(): the first update_plot() is called directly, so an
\* exception in it (float(freq), 1 / float(freq)) leaves start_waveform with the thread still running.
cfg_live_plot_waveform ==
  /\ cfPc = "mainloop" /\ cfStack # <<>> /\ TopFrame.pc = "live_plot"
  /\ \E ok \in BOOLEAN : cfStack' = IF ok THEN SetTop("plot") ELSE PopFrame
  /\ UNCHANGED <<benchVars, lgVars, wvVars, outOn, swVars, cfPc, fgen_thread, quitMainLoop>>

\* plot_root.mainloop() returns: some update_plot has called plot_root.quit(), or a root.quit() of an
\* inner start_waveform has set the quit flag.
cfg_plot_quit ==
  /\ cfPc = "mainloop" /\ cfStack # <<>> /\ TopFrame.pc = "plot"
  /\ cfStack' = SetTop("join")
  /\ quitMainLoop' = FALSE
  /\ UNCHANGED <<benchVars, lgVars, wvVars, outOn, swVars, cfPc, fgen_thread>>

\* fgen_thread.join() returns once the thread this activation started has ended, however it ended.
cfg_join ==
  /\ cfPc = "mainloop" /\ cfStack # <<>> /\ TopFrame.pc = "join"
  /\ fgen_thread[TopFrame.th].st # "run"
  /\ cfStack' = SetTop("close")
  /\ UNCHANGED <<benchVars, lgVars, wvVars, outOn, swVars, cfPc, fgen_thread, quitMainLoop>>

\* inst.close(); an exception ends the callback before root.quit().
cfg_close ==
  /\ cfPc = "mainloop" /\ cfStack # <<>> /\ TopFrame.pc = "close"
  /\ \E res \in CloseResults("FGEN") :
       /\ closeCalls' = [closeCalls EXCEPT !["FGEN"] = @ + 1]
       /\ isOpen' = IF res = "raised_open" THEN isOpen ELSE [isOpen EXCEPT !["FGEN"] = FALSE]
       /\ cfStack' = IF res = "closed" THEN SetTop("quit") ELSE PopFrame
  /\ UNCHANGED <<variant, lock, everOpened, rmCloseCalls, objVars, uiVars, histVars, pollVars, snapVars, lgVars, wvVars, outOn, swVars, cfPc, fgen_thread, quitMainLoop>>

\* root.quit() and the return of start_waveform.
cfg_quit ==
  /\ cfPc = "mainloop" /\ cfStack # <<>> /\ TopFrame.pc = "quit"
  /\ quitMainLoop' = TRUE
  /\ cfStack' = PopFrame
  /\ UNCHANGED <<benchVars, lgVars, wvVars, outOn, swVars, cfPc, fgen_thread>>

\* root.mainloop() returns and the module ends; threads still running are not daemons and run on.
cfg_mainloop_exit ==
  /\ cfPc = "mainloop" /\ cfStack = <<>> /\ quitMainLoop
  /\ cfPc' = "exited"
  /\ quitMainLoop' = FALSE
  /\ UNCHANGED <<benchVars, lgVars, wvVars, outOn, swVars, cfStack, fgen_thread>>

\* One call of configure_fgen in thread i.  A write raises on a closed session and may raise on an open
\* one; nothing catches it, so the thread ends there.
cfg_configure_fgen ==
  /\ \E i \in DOMAIN fgen_thread :
       /\ fgen_thread[i].st = "run"
       /\ LET w == fgen_thread[i]
              c == WorkerSeq(w.func)[w.idx]
              next == IF w.idx = Len(WorkerSeq(w.func)) THEN [w EXCEPT !.st = "done"] ELSE [w EXCEPT !.idx = @ + 1] IN
          \E ok \in (IF c.kind = "sleep" \/ isOpen["FGEN"] THEN {TRUE} ELSE {}) \cup (IF c.kind = "sleep" THEN {} ELSE {FALSE}) :
            /\ fgen_thread' = [fgen_thread EXCEPT ![i] = IF ok THEN next ELSE [w EXCEPT !.st = "died"]]
            /\ outOn' = IF ok THEN After(c, outOn) ELSE outOn
  /\ UNCHANGED <<benchVars, lgVars, wvVars, swVars, cfPc, cfStack, quitMainLoop>>

NextCfg ==
  \/ cfg_start_waveform \/ cfg_live_plot_waveform \/ cfg_plot_quit \/ cfg_join \/ cfg_close \/ cfg_quit \/ cfg_mainloop_exit
  \/ cfg_configure_fgen

SpecCfg == InitCfg /\ [][NextCfg]_vars

\* ---------------------------------------------------------------- DMM loggers (disc4.py, discover2.py)

\* Readings run from -1.000 to MaxHalfUnits/2 in steps of 0.500.
MaxHalfUnits == 24

\* Rows a logger inserts before the model stops following further readings.
MaxRows == 3

\* An integer literal of the source as a float, in thousandths.
Units(n) == n * 1000

\* What float(dmm.query("READ?")) can return: a grid of values, the neighbours of both limits, not-a-number.
Readings == {Reading(k * 500) : k \in (-2)..MaxHalfUnits} \cup {Reading(Units(5) - 1), Reading(Units(5) + 1), Reading(Units(10) - 1), Reading(Units(10) + 1), NaN}

\* Float comparison a <= b: false as soon as one side is not-a-number.
Le(a, b) == ~a.nan /\ ~b.nan /\ a.v <= b.v

\* disc4.poll with a strict lower limit.
Result4Strict(val) == IF Le(Reading(Units(5)), val) /\ val # Reading(Units(5)) /\ Le(val, Reading(Units(10))) THEN "PASSED" ELSE "Failed"

\* disc4.poll: result = "PASSED" if 5 <= val <= 10 else "Failed".
Result4(val) == IF Le(Reading(Units(5)), val) /\ Le(val, Reading(Units(10))) THEN "PASSED" ELSE "Failed"

\* discover2 main loop: if val <= 5: print("Failed") / elif 5 <= val <= 10: print("PASSED"); "none" when
\* neither branch prints.
Result2(val) == IF Le(val, Reading(Units(5))) THEN "Failed" ELSE IF Le(Reading(Units(5)), val) /\ Le(val, Reading(Units(10))) THEN "PASSED" ELSE "none"

\* One of the two scripts has opened the DMM and is about to enter its loop.
InitLogger ==
  /\ BenchInit
  /\ variant = "test6"
  /\ WaveOff
  /\ ScriptsOff
  /\ lgProg \in {"disc4", "discover2"}
  /\ lgPc = "loop"
  /\ running = TRUE
  /\ lgHave = FALSE
  /\ lgVal = Reading(0)
  /\ lgResult = "none"
  /\ lgDmmOpen = TRUE
  /\ lgRows = 0
  /\ lgConnCloses = 0
  /\ lgDmmCloses = 0

\* stop(sig, frame): Ctrl-C clears the flag.
stop ==
  /\ lgPc \in {"loop", "sleep"}
  /\ running
  /\ running' = FALSE
  /\ UNCHANGED <<benchVars, wvVars, scriptVars, lgProg, lgPc, lgHave, lgVal, lgResult, lgDmmOpen, lgRows, lgConnCloses, lgDmmCloses>>

\* A poll that re-arms its timer on every path, also after closing.
pollRearm ==
  /\ lgProg = "disc4"
  /\ lgPc = "loop"
  /\ IF running
     THEN \/ /\ lgRows < MaxRows
             /\ \E val \in Readings :
                  /\ lgVal' = val
                  /\ lgResult' = Result4(val)
             /\ lgHave' = TRUE
             /\ lgRows' = lgRows + 1
             /\ lgPc' = "sleep"
             /\ UNCHANGED <<lgDmmOpen, lgConnCloses, lgDmmCloses>>
          \/ /\ lgPc' = "dead"
             /\ UNCHANGED <<lgVal, lgResult, lgHave, lgDmmOpen, lgRows, lgConnCloses, lgDmmCloses>>
     ELSE /\ lgConnCloses' = lgConnCloses + 1
          /\ lgDmmCloses' = lgDmmCloses + 1
          /\ lgDmmOpen' = FALSE
          /\ lgPc' = "sleep"
          /\ UNCHANGED <<lgVal, lgResult, lgHave, lgRows>>
  /\ UNCHANGED <<benchVars, wvVars, scriptVars, lgProg, running>>

\* disc4.poll: one run of the callback -- read, label, show and log, re-arm the timer; a raising get_reading
\* leaves the callback before root.after, so poll never runs again; with the flag cleared, close and exit.
poll ==
  /\ lgProg = "disc4"
  /\ lgPc = "loop"
  /\ IF running
     THEN \/ /\ lgRows < MaxRows
             /\ \E val \in Readings :
                  /\ lgVal' = val
                  /\ lgResult' = Result4(val)
             /\ lgHave' = TRUE
             /\ lgRows' = lgRows + 1
             /\ lgPc' = "sleep"
             /\ UNCHANGED <<lgDmmOpen, lgConnCloses, lgDmmCloses>>
          \/ /\ lgPc' = "dead"
             /\ UNCHANGED <<lgVal, lgResult, lgHave, lgDmmOpen, lgRows, lgConnCloses, lgDmmCloses>>
     ELSE /\ lgConnCloses' = lgConnCloses + 1
          /\ lgDmmCloses' = lgDmmCloses + 1
          /\ lgDmmOpen' = FALSE
          /\ lgPc' = "exited"
          /\ UNCHANGED <<lgVal, lgResult, lgHave, lgRows>>
  /\ UNCHANGED <<benchVars, wvVars, scriptVars, lgProg, running>>

\* A main loop without the finally block: an exception ends the process at once.
main_loopNoFinally ==
  /\ lgProg = "discover2"
  /\ lgPc = "loop"
  /\ IF running
     THEN \/ /\ lgRows < MaxRows
             /\ \E val \in Readings :
                  /\ lgVal' = val
                  /\ lgResult' = Result2(val)
             /\ lgHave' = TRUE
             /\ lgRows' = lgRows + 1
             /\ lgPc' = "sleep"
          \/ /\ lgPc' = "exited"
             /\ UNCHANGED <<lgVal, lgResult, lgHave, lgRows>>
     ELSE /\ lgPc' = "finally"
          /\ UNCHANGED <<lgVal, lgResult, lgHave, lgRows>>
  /\ UNCHANGED <<benchVars, wvVars, scriptVars, lgProg, running, lgDmmOpen, lgConnCloses, lgDmmCloses>>

\* discover2 main loop: one pass of `while running:` up to the sleep; an exception or a cleared flag leads
\* to the finally block.
main_loop ==
  /\ lgProg = "discover2"
  /\ lgPc = "loop"
  /\ IF running
     THEN \/ /\ lgRows < MaxRows
             /\ \E val \in Readings :
                  /\ lgVal' = val
                  /\ lgResult' = Result2(val)
             /\ lgHave' = TRUE
             /\ lgRows' = lgRows + 1
             /\ lgPc' = "sleep"
          \/ /\ lgPc' = "finally"
             /\ UNCHANGED <<lgVal, lgResult, lgHave, lgRows>>
     ELSE /\ lgPc' = "finally"
          /\ UNCHANGED <<lgVal, lgResult, lgHave, lgRows>>
  /\ UNCHANGED <<benchVars, wvVars, scriptVars, lgProg, running, lgDmmOpen, lgConnCloses, lgDmmCloses>>

\* root.after(int(POLL_SEC * 1000), poll) fires / time.sleep(POLL_SEC) returns.
LoggerWake ==
  /\ lgPc = "sleep"
  /\ lgPc' = "loop"
  /\ UNCHANGED <<benchVars, wvVars, scriptVars, lgProg, running, lgHave, lgVal, lgResult, lgDmmOpen, lgRows, lgConnCloses, lgDmmCloses>>

\* discover2 finally block: conn.close(), dmm.close(), sys.exit(0).
main_finally ==
  /\ lgPc = "finally"
  /\ lgConnCloses' = lgConnCloses + 1
  /\ lgDmmCloses' = lgDmmCloses + 1
  /\ lgDmmOpen' = FALSE
  /\ lgPc' = "exited"
  /\ UNCHANGED <<benchVars, wvVars, scriptVars, lgProg, running, lgHave, lgVal, lgResult, lgRows>>

NextLogger == stop \/ poll \/ main_loop \/ LoggerWake \/ main_finally

SpecLogger == InitLogger /\ [][NextLogger]_vars

\* ---------------------------------------------------------------- waveform preview (test7_GUI_Final.py)

\* Time is counted in ticks; with this many ticks per second every period, sample step, phase shift and
\* duty threshold of the arguments below is a whole number of ticks.
TicksPerSecond == 360 * 250

\* Voltages are in tenths of a volt.  Arguments the function is called with; fl tells how the rounding of
\* these arguments' floats falls where the two sides of a comparison are equal in exact arithmetic:
\* "below" when the rounded left side comes out smaller (0.01 < 0.010000000000000002 for freq 5, duty 5,
\* sample 25 of 500), "exact" when it does not (freq 1000, duty 50, sample 250 of 500).
WaveArgs == [wave : {"SQU", "RAMP", "PULSE", "DC"}, freq : {1, 2, 5}, high : {5, 10, 50}, low : {-10, 0}, duty : {5, 25, 50, 75}, phase_deg : {0, 90, 180}, pts : {4, 10, 500}, fl : {"below", "exact"}]

\* period = 1 / freq
period(freq) == TicksPerSecond \div freq

\* np.linspace(0, period, pts + 1): the end point included.
linspaceClosed(p, pts) == [i \in 1..(pts + 1) |-> (i - 1) * (p \div pts)]

\* np.linspace(0, period, pts, endpoint=False): step = period / pts, sample i is i * step.
linspace(p, pts) == [i \in 1..pts |-> (i - 1) * (p \div pts)]

\* phase_rad / (2 * np.pi * freq) with phase_rad = np.deg2rad(phase_deg): the fraction phase_deg / 360 of
\* the period.
PhaseShift(a) == (a.phase_deg * period(a.freq)) \div 360

\* A voltage (tenths of a volt) in the unit of the samples, 1 / (10 * period) volt.
Volt(v, a) == v * period(a.freq)

\* x < y on floats: decided by the exact values unless these are equal.
Less(x, y, fl) == x < y \/ (x = y /\ fl = "below")

\* A square wave fixed to 50 % duty, whatever the duty argument.
RectHalfDuty(a, t) == IF Less((t + PhaseShift(a)) % period(a.freq), (50 * period(a.freq)) \div 100, a.fl) THEN Volt(a.high, a) ELSE Volt(a.low, a)

\* SQU branch: np.where((t + shift) % period < duty / 100 * period, high, low) for one sample.
Rect(a, t) == IF Less((t + PhaseShift(a)) % period(a.freq), (a.duty * period(a.freq)) \div 100, a.fl) THEN Volt(a.high, a) ELSE Volt(a.low, a)

\* PULSE branch: pw = duty / 100 * period
pw(a) == (a.duty * period(a.freq)) \div 100

\* PULSE branch: np.where((t + shift) % period < pw, high, low) for one sample.
Pulse(a, t) == IF Less((t + PhaseShift(a)) % period(a.freq), pw(a), a.fl) THEN Volt(a.high, a) ELSE Volt(a.low, a)

\* (high - low) * (t + shift) % period / period + low for one sample: the product is taken first, then
\* its remainder.
Ramp(a, t) == (((a.high - a.low) * (t + PhaseShift(a))) % (10 * period(a.freq))) + Volt(a.low, a)

\* A preview whose samples also depend on whether the lock is held.
WaveYStateful(a, t) == [i \in DOMAIN t |-> IF lock # "free" THEN Volt(a.low, a) ELSE IF a.wave = "SQU" THEN Rect(a, t[i]) ELSE IF a.wave = "PULSE" THEN Pulse(a, t[i]) ELSE IF a.wave = "RAMP" THEN Ramp(a, t[i]) ELSE Volt(a.high, a)]

\* The branch of the wave, applied to every sample time.
WaveY(a, t) == [i \in DOMAIN t |-> IF a.wave = "SQU" THEN Rect(a, t[i]) ELSE IF a.wave = "PULSE" THEN Pulse(a, t[i]) ELSE IF a.wave = "RAMP" THEN Ramp(a, t[i]) ELSE Volt(a.high, a)]

\* A call of one_period_wave is about to be made with some arguments.
InitWave ==
  /\ BenchInit
  /\ variant = "test6"
  /\ LoggerOff
  /\ ScriptsOff
  /\ wvPc = "call"
  /\ wvArgs \in WaveArgs
  /\ wvT = <<>>
  /\ wvY = <<>>

\* one_period_wave(wave, freq, high, low, duty, phase_deg, pts): return t, y.
one_period_wave ==
  /\ wvPc = "call"
  /\ wvT' = linspace(period(wvArgs.freq), wvArgs.pts)
  /\ wvY' = WaveY(wvArgs, wvT')
  /\ wvPc' = "returned"
  /\ UNCHANGED <<benchVars, scriptVars, lgVars, wvArgs>>

NextWave == one_period_wave

SpecWave == InitWave /\ [][NextWave]_vars

\* ---------------------------------------------------------------- preview thread (test7_GUI_Final.py)

\* Widget values plot_loop can read; pts is the default 500.
PlotArgs == [wave : {"SQU", "RAMP"}, freq : {5}, high : {10}, low : {0}, duty : {5}, phase_deg : {0}, pts : {500}, fl : {"below"}]

\* The window of test7_GUI_Final.py right after its fields are set.
InitPlot ==
  /\ variant = "test7"
  /\ snapOn = FALSE
  /\ BenchFields
  /\ LoggerOff
  /\ ScriptsOff
  /\ wvPc = "not_started"
  /\ wvArgs = <<>>
  /\ wvT = <<>>
  /\ wvY = <<>>

\* __init__: the daemon plot thread is created and started, then mainloop runs.
StartPlot ==
  /\ uiPc = "start_plot"
  /\ wvPc = "not_started"
  /\ wvPc' = "loop"
  /\ uiPc' = "idle"
  /\ UNCHANGED <<variant, snapVars, lock, devVars, objVars, uiCtx, uiIdx, uiCmd, ioUi, fgWav, fgOut, localInst, exitRet, histVars, pollVars, scriptVars, lgVars, wvArgs, wvT, wvY>>

\* plot_loop: `while self.run_flag:` then `if self.inst:`.
PlotCheck ==
  /\ wvPc = "loop"
  /\ wvPc' = IF ~run_flag THEN "done" ELSE IF Truthy THEN "compute" ELSE "sleep"
  /\ UNCHANGED <<benchVars, scriptVars, lgVars, wvArgs, wvT, wvY>>

\* A preview computed under the lock.
PlotComputeLocked ==
  /\ wvPc = "compute"
  /\ \/ \E a \in PlotArgs :
          /\ wvArgs' = a
          /\ wvT' = linspace(period(a.freq), a.pts)
          /\ wvY' = WaveY(a, wvT')
          /\ wvPc' = "publish"
          /\ lock' = "plot"
     \/ /\ destroyed
        /\ wvPc' = "sleep"
        /\ UNCHANGED <<wvArgs, wvT, wvY, lock>>
  /\ UNCHANGED <<variant, snapVars, devVars, objVars, uiVars, histVars, pollVars, scriptVars, lgVars>>

\* plot_loop: the widget values are read and one_period_wave is called with them; reading a widget of a
\* destroyed window raises into `except Exception: pass`.
PlotCompute ==
  /\ wvPc = "compute"
  /\ \/ \E a \in PlotArgs :
          /\ wvArgs' = a
          /\ wvT' = linspace(period(a.freq), a.pts)
          /\ wvY' = WaveY(a, wvT')
          /\ wvPc' = "publish"
     \/ /\ destroyed
        /\ wvPc' = "sleep"
        /\ UNCHANGED <<wvArgs, wvT, wvY>>
  /\ UNCHANGED <<benchVars, scriptVars, lgVars>>

\* plot_loop: self.after(0, lambda t=t, y=y: self.refresh_plot(t, y)) hands the arrays to the UI thread.
PlotPublish ==
  /\ wvPc = "publish"
  /\ wvPc' = "sleep"
  /\ UNCHANGED <<benchVars, scriptVars, lgVars, wvArgs, wvT, wvY>>

\* plot_loop: time.sleep(0.2), then back to the loop condition.
PlotSleep ==
  /\ wvPc = "sleep"
  /\ wvPc' = "loop"
  /\ UNCHANGED <<benchVars, scriptVars, lgVars, wvArgs, wvT, wvY>>

PlotNext == StartPlot \/ PlotCheck \/ PlotCompute \/ PlotPublish \/ PlotSleep

\* test7_GUI_Final.py as the window runs it: UI thread, poll thread and plot thread.
SpecPlot == InitPlot /\ [][GuiNext \/ PlotNext]_vars

\* ---------------------------------------------------------------- properties

ExitPcs == {"exit_begin", "exit_acquire", "exit_dis", "exit_dis_io", "exit_close", "exit_quit"}

\* A call of safe_exit has returned and no other is running.
ExitReturned == exitCalls >= 1 /\ uiPc \notin ExitPcs

\* The UI thread is inside a lock-guarded body (a wrapper's, or safe_exit's disable step).
UiInBody == uiPc \in {"w_body", "w_io", "exit_dis", "exit_dis_io"}

\* The poll thread is inside its cycle's lock-guarded body.
PollInBody == pollPc \in {"body", "io"}

\* C1: the two threads are never inside lock-guarded bodies at once, and a poll cycle's device I/O is never in
\* flight together with device I/O of the UI thread (user command or shutdown disable step).
C1_MutualExclusion == ~(UiInBody /\ PollInBody) /\ ~(ioUi # NoIO /\ ioPoll # NoIO)

\* A poll cycle's I/O is in flight while safe_exit waits for the lock.
C1_Witness == pollPc = "io" /\ ioPoll # NoIO /\ uiPc = "exit_acquire"

C3_AllOutputsDisabled == (initOk /\ ExitReturned) => \A i \in 1..Len(DisableSeq(variant)) : DisableSeq(variant)[i].role \in disableSent

\* C4: once safe_exit has returned, close() was called on every session ever opened and rm.close() was called.
C4_AllSessionsCloseAttempted == ExitReturned => (\A r \in everOpened : closeCalls[r] >= 1) /\ rmCloseCalls >= 1

\* safe_exit returned after its disable step raised and a close raised, with every role's session opened.
C4_Witness == ExitReturned /\ disableRaised /\ closeRaised /\ everOpened = Roles(variant)

\* C5: every call of safe_exit that is entered reaches its end.
C5_SafeExitTerminates == (uiPc = "exit_begin") ~> (uiPc \in {"idle", "start_poll"} /\ destroyed)

\* safe_exit waits for the lock while a poll cycle's I/O is in flight under it.
C5_Witness == uiPc = "exit_acquire" /\ lock = "poll" /\ pollPc = "io"

\* C6: a second call of safe_exit issues no write, query or close on any session.
C6_SecondExitNoIo == (exitCalls >= 2 /\ uiPc \notin ExitPcs) => exitOps = 0

\* C7: a wrapper called after safe_exit has returned ends with the closed-session error.
C7_LateCommandClosed == (uiPc = "w_ret" /\ exitCalls >= 1) => lastErr = "InvalidSession"

\* C8: when discovery leaves a required role without an address, initialization fails with no session ever
\* opened: nothing is tracked, nothing is open and self.inst stays unset.
C8_AllOrNothing == (uiPc # "connect" /\ discovered # Roles(variant)) => (everOpened = {} /\ all_sessions = <<>> /\ ~instSet /\ ~initOk /\ \A r \in AllRoles : ~isOpen[r])

\* Initialization has ended with the first role discovered and a later one missing.
C8_Witness == uiPc = "start_poll" /\ "PS" \in discovered /\ discovered # Roles(variant) /\ exitCalls = 1

\* C9: when the transport rejects the open of one role, initialization has failed and, when its failure
\* handling is over, close() was called exactly once on each session opened before and on no other.
C9_PartialOpenClosedOnce == (rejected # "none" /\ uiPc = "start_poll") => (~initOk /\ ~instSet /\ \A r \in AllRoles : closeCalls[r] = (IF r \in everOpened THEN 1 ELSE 0))

\* The open of the third role was rejected and the failure handling is over.
C9_Witness == rejected = "FGEN" /\ uiPc = "start_poll" /\ everOpened = {"PS", "DMM"}

\* C10: self.inst is unset or maps every required role to its own open-tracked session, never a strict subset;
\* from its assignment until safe_exit is entered every mapped session is open.
C10_RegistryInvariant == (~instSet => inst = EmptyMap) /\ (instSet => DOMAIN inst = Roles(variant) /\ \A r \in DOMAIN inst : inst[r] \in everOpened /\ \A q \in DOMAIN inst : (inst[q] = inst[r] => q = r)) /\ (instSet /\ exitCalls = 0 => \A r \in DOMAIN inst : isOpen[inst[r]])

\* The registry is populated and a poll cycle is using it before any shutdown.
C10_Witness == instSet /\ exitCalls = 0 /\ pollPc = "io" /\ DOMAIN inst = Roles(variant)

\* C11: a device error anywhere in a poll cycle drops that cycle only -- the thread goes on to its sleep with
\* the lock released, and sessions, registry and run_flag are as they were, so that any number of dropped
\* cycles leaves the next one the same chances; the loop is left only with run_flag cleared; a cycle after
\* a dropped one can complete and publish.
C11_PollerResilience == [](pollPc = "done" => ~run_flag) /\ [][(PollInBody /\ pollPc' \notin {"body", "io", "publish"}) => (pollPc' = "sleep" /\ lock' = "free" /\ cycleFailed' /\ UNCHANGED <<objVars, devVars>>)]_vars

\* C11 witness: a cycle completes and is about to publish right after a dropped cycle.
C11_Witness == pollPc = "publish" /\ cycleFailed /\ run_flag

\* C12: the poll thread goes not started -> running -> done and never back; it becomes done only at the
\* loop condition with run_flag cleared; once done it stays done and untouched; run_flag, once cleared,
\* stays cleared.
C12_PollLifecycle == [][/\ (pollPc' = "not_started" => pollPc = "not_started")
                        /\ (pollPc = "not_started" => pollPc' \in {"not_started", "loop"})
                        /\ ((pollPc' = "done" /\ pollPc # "done") => (pollPc = "loop" /\ ~run_flag))
                        /\ (pollPc = "done" => UNCHANGED pollVars)
                        /\ (~run_flag => ~run_flag')]_vars

\* C12 witness: safe_exit is entered a second time when the poll thread has already finished.
C12_Witness == pollPc = "done" /\ exitCalls >= 2

\* C13: clearing run_flag does not move the poll thread; a cycle that began ends by publishing or by its
\* error, never by the flag; a cycle begins only from a loop-condition check that saw run_flag set; and once
\* run_flag is cleared the thread eventually finishes.
C13_CooperativeStop == [][/\ ((run_flag /\ ~run_flag') => UNCHANGED pollVars)
                          /\ ((pollPc = "acquire" \/ PollInBody) => pollPc' \in {"acquire", "body", "io", "publish", "sleep"})
                          /\ ((pollPc = "loop" /\ pollPc' = "acquire") => run_flag)]_vars /\ (~run_flag ~> pollPc = "done")

\* C13 witness: run_flag is cleared while a cycle's device call is in flight.
C13_Witness == ~run_flag /\ pollPc = "io"

\* C14: the poll thread holds the lock exactly while it is inside a cycle's read sequence, from the first
\* call to the last, and no UI-thread device I/O is in flight during it; publishing, sleeping and the loop
\* check are done without the lock.
C14_CycleUnderOneLock == (PollInBody => (lock = "poll" /\ ioUi = NoIO)) /\ (~PollInBody => (lock # "poll" /\ ioPoll = NoIO))

\* C14 witness: a user command waits for the lock while the cycle's last call is in flight.
C14_Witness == pollPc = "io" /\ pollIdx = Len(PollSeq) /\ uiPc = "w_acquire"

\* C15: once connect_instruments has failed and its handler is over, run_flag is cleared, the poll thread
\* is never inside a cycle and no device call is in flight on either thread.
C15_FailedInitFatal == (~initOk /\ destroyed) => (~run_flag /\ pollPc \in {"not_started", "loop", "done"} /\ uiPc \in {"start_poll", "idle"} /\ ioUi = NoIO /\ ioPoll = NoIO)

\* C15 witness: a configuration command failed (self.inst is set) and the poll thread has run and finished.
C15_Witness == ~initOk /\ destroyed /\ Truthy /\ pollPc = "done"

\* A reading lies within both limits, limits included.
InLimits(val) == ~val.nan /\ Units(5) <= val.v /\ val.v <= Units(10)

\* C16: the label disc4.poll gives the reading it has just taken is PASSED exactly when the reading is
\* within 5.0 and 10.0, limits included, and Failed otherwise -- never anything else, never none.
C16_Disc4Label == (lgProg = "disc4" /\ lgHave) => (lgResult \in {"PASSED", "Failed"} /\ (lgResult = "PASSED" <=> InLimits(lgVal)))

\* C16 witness: disc4 has labelled a reading of exactly 5.000 as PASSED.
C16_Witness == lgProg = "disc4" /\ lgHave /\ lgVal = Reading(Units(5)) /\ lgResult = "PASSED"

\* C17: the label discover2 prints for the reading it has just taken is PASSED exactly when the reading is
\* within 5.0 and 10.0, limits included, and Failed otherwise.
C17_Discover2Label == (lgProg = "discover2" /\ lgHave) => (lgResult \in {"PASSED", "Failed"} /\ (lgResult = "PASSED" <=> InLimits(lgVal)))

\* C18: for SQU with phase 0 the sample of index i is high exactly when i / pts < duty / 100 and low
\* otherwise; with high 1.0, low 0.0, duty 50 and 500 samples the first 250 are high and the last 250 low.
C18_SquareDuty == (wvPc = "returned" /\ wvArgs.wave = "SQU" /\ wvArgs.phase_deg = 0) => \A i \in 0..(wvArgs.pts - 1) : wvY[i + 1] = IF i * 100 < wvArgs.duty * wvArgs.pts THEN Volt(wvArgs.high, wvArgs) ELSE Volt(wvArgs.low, wvArgs)

\* C19: every RAMP sample equals low + (high - low) * (((t + shift) mod T) / T), and lies in [low, high)
\* when high > low.
C19_RampFormula == (wvPc = "returned" /\ wvArgs.wave = "RAMP") => \A i \in 1..Len(wvY) : (wvY[i] = Volt(wvArgs.low, wvArgs) + (wvArgs.high - wvArgs.low) * ((wvT[i] + PhaseShift(wvArgs)) % period(wvArgs.freq)) /\ (wvArgs.high > wvArgs.low => (Volt(wvArgs.low, wvArgs) <= wvY[i] /\ wvY[i] < Volt(wvArgs.high, wvArgs))))

\* C20: the call returns pts times and pts samples; time i is i * T / pts, so the first is 0, they
\* strictly increase and all are below T.
C20_SampleTimes == wvPc = "returned" => (Len(wvT) = wvArgs.pts /\ Len(wvY) = wvArgs.pts /\ wvT[1] = 0 /\ \A i \in 1..Len(wvT) : (wvT[i] * wvArgs.pts = (i - 1) * period(wvArgs.freq) /\ wvT[i] < period(wvArgs.freq) /\ (i > 1 => wvT[i - 1] < wvT[i])))

\* C20 witness: a call with 500 samples has returned 500 times, the last one a step short of the period.
C20_Witness == wvPc = "returned" /\ wvArgs.pts = 500 /\ Len(wvT) = 500 /\ wvT[500] * 500 = 499 * period(wvArgs.freq)

C22_PlotTouchesNoDevice == [][(wvPc' # wvPc) => UNCHANGED <<lock, devVars, objVars, ioUi, ioPoll, closeRaised, disableSent>>]_vars

\* C22 witness: a preview has been computed and is about to be handed over while the poll thread holds the
\* lock with a device call in flight.
C22_Witness == wvPc = "publish" /\ lock = "poll" /\ ioPoll # NoIO

\* C23: fg_update has no rollback.  Its sub-commands are sent in the order of FgSeq, one more only after the
\* previous one succeeded; when the j-th fails the call is abandoned at once (no sub-command j+1.., and no
\* compensating write for 1..j-1: the UI thread is back in the main loop with nothing in flight), and the
\* lock is free from the moment the failed wrapper returns.
C23_NoRollback ==
  [][/\ (uiCtx = "fg" /\ uiPc = "w_ret" /\ lastErr # "ok")
          => (lock # "ui" /\ ioUi = NoIO
              /\ (uiPc' # uiPc => (uiPc' = "idle" /\ uiCtx' = "idle" /\ ioUi' = NoIO /\ lock' = lock)))
     /\ (uiCtx = "fg" /\ uiCtx' = "fg" /\ uiIdx' # uiIdx)
          => (lastErr = "ok" /\ uiIdx' = uiIdx + 1 /\ uiCmd' = FgSeq(fgWav, fgOut)[uiIdx + 1])
     /\ (uiCtx = "fg" /\ ioUi' # NoIO /\ ioUi = NoIO)
          => ioUi' = FgSeq(fgWav, fgOut)[uiIdx]]_vars

\* The third sub-command of an fg_update has timed out after two were sent; the lock is free.
C23_Witness == uiCtx = "fg" /\ uiPc = "w_ret" /\ uiIdx = 3 /\ lastErr = "Timeout" /\ lock = "free"

\* C24: safe_exit keeps a fixed order.  While the lock is requested or held for the disable step run_flag is
\* already cleared and no session has been closed by this call; while the close loop runs the resource manager
\* has not been closed by this call; and when the resource manager has been closed, close() was attempted
\* on every tracked session.  No step goes back to an earlier phase within one call.
C24_ExitOrder ==
  /\ uiPc \in {"exit_acquire", "exit_dis", "exit_dis_io"}
       => (~run_flag /\ rmCloseCalls = exitCalls - 1
           /\ \A i \in 1..Len(all_sessions) : closeCalls[all_sessions[i]] = exitCalls - 1)
  /\ uiPc = "exit_close"
       => (~run_flag /\ rmCloseCalls = exitCalls - 1
           /\ \A i \in 1..Len(all_sessions) :
                closeCalls[all_sessions[i]] = IF i < uiIdx THEN exitCalls ELSE exitCalls - 1)
  /\ uiPc = "exit_quit"
       => (~run_flag /\ rmCloseCalls = exitCalls
           /\ \A i \in 1..Len(all_sessions) : closeCalls[all_sessions[i]] = exitCalls)

\* A safe_exit that sent both disable commands, closed every session and the resource manager.
C24_Witness ==
  /\ uiPc = "exit_quit" /\ disableSent = {"PS", "FGEN"} /\ ~disableRaised
  /\ Len(all_sessions) = Len(RoleSeq(variant)) /\ rmCloseCalls = 1

\* C25: no session is closed while a poll cycle's write or query on it is in flight, and the poll thread never
\* starts a write or query on a session that has been closed.
C25_NoPollIoOnClosed ==
  /\ ioPoll # NoIO => isOpen[inst[ioPoll.role]]
  /\ pollPc = "body" => isOpen[inst[PollSeq[pollIdx].role]]

\* C26: the lock is held only by a thread that is inside a guarded body: whenever no thread is inside one
\* (also after a body was left by a device error, a reply that does not parse, or a command issued while
\* self.inst is unset) the lock is free.
C26_LockReleased ==
  /\ lock = "ui" => UiInBody
  /\ lock = "poll" => PollInBody
  /\ (~UiInBody /\ ~PollInBody) => lock = "free"

\* A wrapper called while self.inst is unset has raised TypeError inside its with-block; the lock is free.
C26_Witness == uiPc = "w_ret" /\ lastErr = "TypeError" /\ lock = "free"

\* C27: no thread requests the lock while holding it: the UI thread does not hold it when a wrapper or
\* safe_exit's disable step requests it, and the poll thread does not hold it when a cycle requests it.
C27_NoSelfDeadlock ==
  /\ uiPc \in {"w_acquire", "exit_acquire"} => lock # "ui"
  /\ pollPc = "acquire" => lock # "poll"

\* safe_exit is sending its second disable write directly on the session, inside the one with-block, while the
\* poll thread waits for the lock.
C27_Witness == uiPc = "exit_dis_io" /\ uiIdx = 2 /\ lock = "ui" /\ pollPc = "acquire"

\* C28: every update_live_labels call shows a PS read-back and a DMM reading that were both assigned in the
\* cycle that queued the call, also when the main loop runs the call after a later cycle has started.
C28_SnapshotOfOneCycle == [][(cbPending /\ ~cbPending') => (v_ps = "own" /\ v_dmm = "own")]_vars

\* The commands that turn an output or the acquisition on.
OnCmds == {"OP1 1", "OUTP1 1", "OUTP1 ON", "ACQuire:STATE RUN"}

\* Every disable write of a safe_exit call has been sent and has returned without raising.
DisabledOk ==
  /\ exitCalls >= 1 /\ ~disableRaised
  /\ disableSent = {DisableSeq(variant)[i].role : i \in 1..Len(DisableSeq(variant))}
  /\ uiPc \notin {"exit_dis", "exit_dis_io"}

\* C29: once the disable writes of safe_exit have been sent successfully, no thread of the window sends a
\* command that turns an output on again: none is in flight on either thread.
C29_NoReEnable ==
  DisabledOk => (ioUi.cmd \notin OnCmds /\ ioPoll.cmd \notin OnCmds)

\* After a successful disable step the window is gone, the generator's session is still open because its close
\* raised, and a poll cycle that had passed its run_flag test has a query in flight.
C29_Witness == DisabledOk /\ destroyed /\ isOpen["FGEN"] /\ ioPoll # NoIO

\* C30: fg_update is not one critical section.  Between two of its sub-commands the UI thread does not hold
\* the lock, so a poll cycle waiting for the lock can take it there and run whole before the next sub-command;
\* and when a user command and a poll cycle both wait for the free lock, either of them can be served.
C30_FgNotAtomic ==
  /\ (uiCtx = "fg" /\ uiPc \in {"w_ret", "w_acquire"}) => lock # "ui"
  /\ (uiCtx = "fg" /\ uiPc \in {"w_ret", "w_acquire"} /\ pollPc = "acquire" /\ lock = "free") => ENABLED PollAcquire
  /\ (uiPc = "w_acquire" /\ pollPc = "acquire" /\ lock = "free") => (ENABLED WrapperAcquire /\ ENABLED PollAcquire)

\* The third sub-command of an fg_update waits for the lock while a poll cycle, which took the lock after the
\* second sub-command released it, has its last query in flight.
C30_Witness ==
  /\ uiCtx = "fg" /\ uiPc = "w_acquire" /\ uiIdx = 3
  /\ lock = "poll" /\ pollPc = "io" /\ pollIdx = Len(PollSeq)

\* The program points of connect_instruments before ps_write("OP1 1").
SetupPcs == {"connect", "init_open", "init_assign", "config", "config_io"}

\* C31: 'OP1 1' is sent only by connect_instruments, after every session was opened and the last write of the
\* configuration sequence returned; the set-up steps are left either that way or into safe_exit, and once the
\* handler has been entered 'OP1 1' is never sent.
C31_EnableAfterSetup ==
  /\ [](uiCmd.cmd = "OP1 1" \/ ioUi.cmd = "OP1 1"
          => (/\ uiCtx = "connect" /\ exitCalls = 0 /\ instSet
              /\ everOpened = Roles(variant) /\ Len(all_sessions) = Len(RoleSeq(variant))
              /\ uiIdx = Len(ConfigSeq(variant))))
  /\ []((exitCalls >= 1 \/ uiPc = "exit_begin") => (ioUi.cmd # "OP1 1" /\ uiCmd.cmd # "OP1 1" /\ ioPoll.cmd # "OP1 1"))
  /\ [][(uiPc \in SetupPcs /\ uiPc' \notin SetupPcs)
          => (\/ uiPc' = "exit_begin" /\ exitRet = "init"
              \/ uiPc' = "w_acquire" /\ uiPc = "config_io" /\ uiIdx = Len(ConfigSeq(variant)) /\ uiCmd'.cmd = "OP1 1")]_vars

\* The scope variant has 'OP1 1' in flight after its four sessions were opened and configured.
C31_Witness == ioUi.cmd = "OP1 1" /\ variant = "test8" /\ lock = "ui"

\* The arguments a with the other of the two shapes SQU and PULSE.
OtherRect(a) == [a EXCEPT !.wave = IF a.wave = "SQU" THEN "PULSE" ELSE "SQU"]

\* C32: for the same frequency, levels, duty and phase, the sequence returned for SQU is the one returned for
\* PULSE, at every duty: the result of a call with one of the two shapes equals what the other shape's
\* branch gives on the same sample times.
C32_SquEqualsPulse ==
  (wvPc = "returned" /\ wvArgs.wave \in {"SQU", "PULSE"})
    => (wvT = linspace(period(OtherRect(wvArgs).freq), OtherRect(wvArgs).pts) /\ wvY = WaveY(OtherRect(wvArgs), wvT))

\* A SQU call with 25 % duty has returned: its samples are high for the first quarter only.
C32_Witness ==
  /\ wvPc = "returned" /\ wvArgs.wave = "SQU" /\ wvArgs.duty = 25 /\ wvArgs.pts = 500 /\ wvArgs.phase_deg = 0
  /\ wvY[100] = Volt(wvArgs.high, wvArgs) /\ wvY[200] = Volt(wvArgs.low, wvArgs)

\* C33: in test4.py the slider's power-supply write is never in flight together with a query or write of a
\* poll cycle.
C33_Test4Serialized == ~(ioUi.cmd = "V1" /\ ioPoll # NoIO)

\* C34: in disc4 a failed reading does not stop polling: every run of poll while running is set ends with
\* the next poll scheduled.
C34_Disc4KeepsPolling == [][(lgProg = "disc4" /\ lgPc = "loop" /\ running /\ lgPc' # lgPc) => lgPc' = "sleep"]_vars

\* C35: in disc4 the poll that runs after running was cleared takes no reading and inserts no row, closes the
\* database connection and the DMM session once each, and schedules nothing: the script is over, and neither
\* is ever closed twice.
C35_Disc4StopPath ==
  /\ [][(lgProg = "disc4" /\ lgPc = "loop" /\ ~running /\ lgPc' # lgPc)
          => (/\ lgPc' = "exited" /\ ~lgDmmOpen'
              /\ lgConnCloses' = lgConnCloses + 1 /\ lgDmmCloses' = lgDmmCloses + 1
              /\ UNCHANGED <<lgRows, lgHave, lgVal, lgResult>>)]_vars
  /\ [][(lgProg = "disc4" /\ lgPc = "exited") => UNCHANGED lgVars]_vars
  /\ [](lgProg = "disc4" => (lgConnCloses <= 1 /\ lgDmmCloses <= 1))

\* disc4 has logged two rows, was stopped, and its next poll closed the connection and the session.
C35_Witness == lgProg = "disc4" /\ lgPc = "exited" /\ ~running /\ lgRows = 2 /\ lgConnCloses = 1 /\ lgDmmCloses = 1

\* C36: in discover2 the loop is left only into the finally block, on the stop signal as on an exception;
\* from then on no reading is taken, and when the process has exited the database connection and the DMM
\* session have been closed exactly once each.
C36_Discover2Cleanup ==
  /\ [][(lgProg = "discover2" /\ lgPc = "loop" /\ lgPc' \notin {"loop", "sleep"}) => lgPc' = "finally"]_vars
  /\ [][(lgProg = "discover2" /\ lgPc \in {"finally", "exited"})
          => (lgPc' \in {"finally", "exited"} /\ UNCHANGED <<lgRows, lgHave, lgVal, lgResult>>)]_vars
  /\ []((lgProg = "discover2" /\ lgPc = "exited") => (lgConnCloses = 1 /\ lgDmmCloses = 1 /\ ~lgDmmOpen))
  /\ []((lgProg = "discover2" /\ lgPc # "exited") => (lgConnCloses = 0 /\ lgDmmCloses = 0 /\ lgDmmOpen))

\* discover2 has exited through an exception, running still set, after one logged row; both are closed.
C36_Witness == lgProg = "discover2" /\ lgPc = "exited" /\ running /\ lgRows = 1 /\ lgConnCloses = 1 /\ lgDmmCloses = 1

\* C37: when a sweep script has ended after it opened instruments -- by a rejected open, by a device error
\* during configuration or in the sweep, or normally -- the PS output and the FGEN output are off and every
\* session it opened is closed.
C37_SweepCleanup ==
  (swPc = "exited" /\ everOpened # {}) => (outOn \cap {"PS", "FGEN"} = {} /\ \A r \in everOpened : ~isOpen[r])

\* C38: the step of start_waveform that closes the generator session is taken only when every thread
\* running configure_fgen has sent 'OUTP1 OFF' and '*RST' (none can still write) and the output is off.
C38_CloseAfterWorker ==
  [][(isOpen["FGEN"] /\ ~isOpen'["FGEN"]) => ((\A i \in DOMAIN fgen_thread : fgen_thread[i].st = "done") /\ "FGEN" \notin outOn)]_vars

====
